---- MODULE Spec2Model ----
(***************************************************************************)
(* UniPass: multi-tenant OAuth gateway.                                    *)
(*                                                                         *)
(* Part 1  text primitives: JavaScript strings are sequences of UTF-16     *)
(*         code units; JSON.stringify / JSON.parse / btoa / atob are       *)
(*         computed on them.                                               *)
(* Part 2  StateCodec: encodeState / decodeState (utils/crypto.ts).        *)
(* Part 3  UsageLedger: plans, checkLimits, usage keys (utils/error.ts,    *)
(*         plans.ts).                                                      *)
(* Part 4  GatewayOrchestrator: handleLogin / handleCallback (router.ts)   *)
(*         as concurrent request processes over the shared KV store.       *)
(* Part 5  the flows (admission, recording, replay) and the functions      *)
(*         examined on their own (checkLimits, the state codec).           *)
(* Part 6  properties.                                                     *)
(***************************************************************************)
EXTENDS Integers, Sequences, FiniteSets, TLC

(***************************************************************************)
(* Part 1: text primitives                                                 *)
(***************************************************************************)

\* JavaScript undefined and null, and the tagged values JSON.parse yields.
Undefined == [t |-> "undef"]
JsNull == [t |-> "null"]
JsBool(b) == [t |-> "bool", b |-> b]
JsNum(n) == [t |-> "num", n |-> n]
JsStr(s) == [t |-> "str", s |-> s]
JsArr(a) == [t |-> "arr", a |-> a]
JsObj(f) == [t |-> "obj", f |-> f]

\* Result of a computation that may throw.
Thrown == [ok |-> FALSE]
Ok(v) == [ok |-> TRUE, v |-> v]

\* Bind(v, F) is F(v) with v computed once, the way a const declaration
\* holds the value of its initializer.
Bind(v, F(_)) == CHOOSE y \in {F(b) : b \in {v}} : TRUE

\* Code units used by the serializers.
ChQuote == 34
ChBackslash == 92
ChEquals == 61
ChAmp == 38

DigitChar(d) == 48 + d
IsDigit(c) == c >= 48 /\ c <= 57

\* String(n) for a non-negative integer: its decimal digits.
RECURSIVE NumToStr(_)
NumToStr(n) ==
  IF n < 10 THEN <<DigitChar(n)>>
  ELSE NumToStr(n \div 10) \o <<DigitChar(n % 10)>>

\* parseInt(s, 10): optional leading whitespace and sign, then the longest
\* run of decimal digits; NaN (modelled as Thrown) when there is none.
RECURSIVE DigitsValue(_, _, _)
DigitsValue(s, i, acc) ==
  IF i > Len(s) \/ ~IsDigit(s[i]) THEN acc
  ELSE DigitsValue(s, i + 1, acc * 10 + (s[i] - 48))

IsJsSpace(c) == c \in {9, 10, 11, 12, 13, 32}

RECURSIVE SkipSpace(_, _)
SkipSpace(s, i) ==
  IF i <= Len(s) /\ IsJsSpace(s[i]) THEN SkipSpace(s, i + 1) ELSE i

parseInt(s0) ==
  Bind(s0, LAMBDA s :
  Bind(SkipSpace(s, 1), LAMBDA i :
    LET neg == i <= Len(s) /\ s[i] = 45
        j == IF i <= Len(s) /\ s[i] \in {43, 45} THEN i + 1 ELSE i
    IN IF j > Len(s) \/ ~IsDigit(s[j]) THEN Thrown
       ELSE Ok(IF neg THEN 0 - DigitsValue(s, j, 0) ELSE DigitsValue(s, j, 0))))

HexDigit(d) == IF d < 10 THEN 48 + d ELSE 97 + (d - 10)

HexValue(c) ==
  IF IsDigit(c) THEN c - 48
  ELSE IF c >= 97 /\ c <= 102 THEN c - 87
  ELSE IF c >= 65 /\ c <= 70 THEN c - 55
  ELSE -1

\* JSON.stringify of one code unit inside a string literal (the alphabets of
\* this model hold no surrogate code units).
QuoteChar(c) ==
  IF c = ChQuote THEN <<ChBackslash, ChQuote>>
  ELSE IF c = ChBackslash THEN <<ChBackslash, ChBackslash>>
  ELSE IF c = 8 THEN <<ChBackslash, 98>>
  ELSE IF c = 9 THEN <<ChBackslash, 116>>
  ELSE IF c = 10 THEN <<ChBackslash, 110>>
  ELSE IF c = 12 THEN <<ChBackslash, 102>>
  ELSE IF c = 13 THEN <<ChBackslash, 114>>
  ELSE IF c < 32
    THEN <<ChBackslash, 117, HexDigit(c \div 4096), HexDigit((c \div 256) % 16),
           HexDigit((c \div 16) % 16), HexDigit(c % 16)>>
  ELSE <<c>>

\* The code units lo..hi of a string, each quoted (by halves).
RECURSIVE QuoteChars(_, _, _)
QuoteChars(s, lo, hi) ==
  IF lo > hi THEN <<>>
  ELSE IF lo = hi THEN QuoteChar(s[lo])
  ELSE QuoteChars(s, lo, (lo + hi) \div 2) \o QuoteChars(s, (lo + hi) \div 2 + 1, hi)

\* JSON.stringify of a string value.
JSONQuote(s0) ==
  Bind(s0, LAMBDA s : <<ChQuote>> \o QuoteChars(s, 1, Len(s)) \o <<ChQuote>>)

\* JSON.stringify of a non-negative integer number.
JSONNumber(n) == NumToStr(n)

\* JSON.parse: a recursive-descent parser of the JSON grammar over code
\* units.  Numbers are integer literals (the inputs of this model hold no
\* fraction or exponent).  A parse result is [ok, v, p]: the value and the
\* position after it; ok = FALSE is the SyntaxError.
ParseFail == [ok |-> FALSE]
Parsed(v, p) == [ok |-> TRUE, v |-> v, p |-> p]

IsJsonWs(c) == c \in {9, 10, 13, 32}

RECURSIVE SkipWs(_, _)
SkipWs(s, i) ==
  IF i <= Len(s) /\ IsJsonWs(s[i]) THEN SkipWs(s, i + 1) ELSE i

HasAt(s, i, lit) ==
  /\ i + Len(lit) - 1 <= Len(s)
  /\ \A k \in 1..Len(lit) : s[i + k - 1] = lit[k]

EscapeValue(e) ==
  IF e = 34 THEN 34 ELSE IF e = 92 THEN 92 ELSE IF e = 47 THEN 47
  ELSE IF e = 98 THEN 8 ELSE IF e = 102 THEN 12 ELSE IF e = 110 THEN 10
  ELSE IF e = 114 THEN 13 ELSE IF e = 116 THEN 9 ELSE -1

\* The first position from i on that holds a quote, a backslash or a
\* control character; Len(s) + 1 when there is none.
StringStop(s, i) ==
  LET stop(j) == s[j] = ChQuote \/ s[j] = ChBackslash \/ s[j] < 32
  IN IF \E j \in i..Len(s) : stop(j)
     THEN CHOOSE j \in i..Len(s) : stop(j) /\ \A k \in i..(j - 1) : ~stop(k)
     ELSE Len(s) + 1

\* The body of a string literal from position i0 (after the opening quote):
\* the run of plain code units up to the next stop, then the stop.
RECURSIVE ParseStringBody(_, _, _)
ParseStringBody(s, i0, acc0) ==
  Bind(StringStop(s, i0), LAMBDA i :
  Bind(acc0 \o SubSeq(s, i0, i - 1), LAMBDA acc :
    IF i > Len(s) THEN ParseFail
    ELSE IF s[i] = ChQuote THEN Parsed(JsStr(acc), i + 1)
    ELSE IF s[i] < 32 THEN ParseFail
    ELSE IF i + 1 > Len(s) THEN ParseFail
    ELSE IF s[i + 1] = 117 THEN
      IF i + 5 > Len(s) \/ \E k \in 2..5 : HexValue(s[i + k]) < 0 THEN ParseFail
      ELSE ParseStringBody(s, i + 6,
             Append(acc, HexValue(s[i + 2]) * 4096 + HexValue(s[i + 3]) * 256
                         + HexValue(s[i + 4]) * 16 + HexValue(s[i + 5])))
    ELSE IF EscapeValue(s[i + 1]) < 0 THEN ParseFail
    ELSE ParseStringBody(s, i + 2, Append(acc, EscapeValue(s[i + 1])))))

\* The first position from i on that holds no digit.
DigitsEnd(s, i) ==
  IF \E j \in i..Len(s) : ~IsDigit(s[j])
  THEN CHOOSE j \in i..Len(s) : ~IsDigit(s[j]) /\ \A k \in i..(j - 1) : IsDigit(s[k])
  ELSE Len(s) + 1

\* An integer literal at position i: -? (0 | [1-9][0-9]*).
ParseNumber(s, i) ==
  Bind(IF s[i] = 45 THEN i + 1 ELSE i, LAMBDA j :
    IF j > Len(s) \/ ~IsDigit(s[j]) THEN ParseFail
    ELSE Bind(IF s[j] = 48 THEN j + 1 ELSE DigitsEnd(s, j), LAMBDA e :
           IF e <= Len(s) /\ s[e] \in {46, 101, 69} THEN ParseFail
           ELSE Bind(DigitsValue(SubSeq(s, j, e - 1), 1, 0), LAMBDA n :
                  Parsed(JsNum(IF s[i] = 45 THEN 0 - n ELSE n), e))))

RECURSIVE ParseValue(_, _)
RECURSIVE ParseMembers(_, _, _)
RECURSIVE ParseElements(_, _, _)

\* Members of an object from position i0 (a member is expected there).
ParseMembers(s, i0, f) ==
  Bind(SkipWs(s, i0), LAMBDA i :
    IF i > Len(s) \/ s[i] # ChQuote THEN ParseFail
    ELSE Bind(ParseStringBody(s, i + 1, <<>>), LAMBDA k :
      IF ~k.ok THEN ParseFail
      ELSE Bind(SkipWs(s, k.p), LAMBDA c :
        IF c > Len(s) \/ s[c] # 58 THEN ParseFail
        ELSE Bind(ParseValue(s, c + 1), LAMBDA v :
          IF ~v.ok THEN ParseFail
          ELSE Bind(SkipWs(s, v.p), LAMBDA e :
               Bind((k.v.s :> v.v) @@ f, LAMBDA g :
                 IF e > Len(s) THEN ParseFail
                 ELSE IF s[e] = 125 THEN Parsed(JsObj(g), e + 1)
                 ELSE IF s[e] = 44 THEN ParseMembers(s, e + 1, g)
                 ELSE ParseFail))))))

\* Elements of an array from position i0 (an element is expected there).
ParseElements(s, i0, a) ==
  Bind(ParseValue(s, i0), LAMBDA v :
    IF ~v.ok THEN ParseFail
    ELSE Bind(SkipWs(s, v.p), LAMBDA e :
         Bind(Append(a, v.v), LAMBDA b :
           IF e > Len(s) THEN ParseFail
           ELSE IF s[e] = 93 THEN Parsed(JsArr(b), e + 1)
           ELSE IF s[e] = 44 THEN ParseElements(s, e + 1, b)
           ELSE ParseFail)))

ParseValue(s, i0) ==
  Bind(SkipWs(s, i0), LAMBDA i :
    IF i > Len(s) THEN ParseFail
    ELSE IF s[i] = 123 THEN
      Bind(SkipWs(s, i + 1), LAMBDA j :
        IF j <= Len(s) /\ s[j] = 125 THEN Parsed(JsObj(<<>>), j + 1)
        ELSE ParseMembers(s, i + 1, <<>>))
    ELSE IF s[i] = 91 THEN
      Bind(SkipWs(s, i + 1), LAMBDA j :
        IF j <= Len(s) /\ s[j] = 93 THEN Parsed(JsArr(<<>>), j + 1)
        ELSE ParseElements(s, i + 1, <<>>))
    ELSE IF s[i] = ChQuote THEN ParseStringBody(s, i + 1, <<>>)
    ELSE IF HasAt(s, i, <<110, 117, 108, 108>>) THEN Parsed(JsNull, i + 4)
    ELSE IF HasAt(s, i, <<116, 114, 117, 101>>) THEN Parsed(JsBool(TRUE), i + 4)
    ELSE IF HasAt(s, i, <<102, 97, 108, 115, 101>>) THEN Parsed(JsBool(FALSE), i + 5)
    ELSE IF s[i] = 45 \/ IsDigit(s[i]) THEN ParseNumber(s, i)
    ELSE ParseFail)

\* JSON.parse(s): the value, or Thrown for a SyntaxError.
JSONParse(s0) ==
  Bind(s0, LAMBDA s :
  Bind(ParseValue(s, 1), LAMBDA r :
    IF r.ok /\ SkipWs(s, r.p) > Len(s) THEN Ok(r.v) ELSE Thrown))

\* The base64 alphabet.
B64Char(i) ==
  IF i < 26 THEN 65 + i
  ELSE IF i < 52 THEN 97 + (i - 26)
  ELSE IF i < 62 THEN 48 + (i - 52)
  ELSE IF i = 62 THEN 43 ELSE 47

B64Index(c) ==
  IF c >= 65 /\ c <= 90 THEN c - 65
  ELSE IF c >= 97 /\ c <= 122 THEN c - 97 + 26
  ELSE IF IsDigit(c) THEN c - 48 + 52
  ELSE IF c = 43 THEN 62
  ELSE IF c = 47 THEN 63
  ELSE -1

\* (A sequence given by a function constructor is taken as SubSeq(f, 1, n),
\* which makes TLC compute its elements once.)
\* The base64 text of a byte string: output position k belongs to the
\* group of three bytes (k - 1) \div 4; missing bytes count as 0 and their
\* positions are padded with '='.
B64Encode(s) ==
  LET n == Len(s)
      byte(j) == IF j <= n THEN s[j] ELSE 0
      m == ((n + 2) \div 3) * 4
  IN SubSeq([k \in 1..m |->
        LET j == ((k - 1) \div 4) * 3 + 1
            q == (k - 1) % 4
        IN IF q = 0 THEN B64Char(byte(j) \div 4)
           ELSE IF q = 1 THEN B64Char((byte(j) % 4) * 16 + byte(j + 1) \div 16)
           ELSE IF q = 2 THEN
             IF j + 1 > n THEN ChEquals
             ELSE B64Char((byte(j + 1) % 16) * 4 + byte(j + 2) \div 64)
           ELSE IF j + 2 > n THEN ChEquals ELSE B64Char(byte(j + 2) % 64)], 1, m)

\* btoa(s): InvalidCharacterError when a code unit is above 0xFF.
btoa(s0) ==
  Bind(s0, LAMBDA s :
    IF \E i \in 1..Len(s) : s[i] > 255 THEN Thrown ELSE Ok(B64Encode(s)))

\* The bytes of an unpadded base64 text whose length is not 1 modulo 4:
\* output byte k comes from the group of four digits (k - 1) \div 3; the
\* bits left over in a short last group are dropped.
B64Decode(s) ==
  LET n == Len(s)
      m == (n \div 4) * 3 + (IF n % 4 = 0 THEN 0 ELSE (n % 4) - 1)
  IN SubSeq([k \in 1..m |->
        LET g == ((k - 1) \div 3) * 4
            q == (k - 1) % 3
        IN IF q = 0 THEN B64Index(s[g + 1]) * 4 + B64Index(s[g + 2]) \div 16
           ELSE IF q = 1
             THEN (B64Index(s[g + 2]) % 16) * 16 + B64Index(s[g + 3]) \div 4
           ELSE (B64Index(s[g + 3]) % 4) * 64 + B64Index(s[g + 4])], 1, m)

\* atob(s): the forgiving-base64 decode.  ASCII whitespace is removed; when
\* the length is a multiple of 4, one or two trailing '=' are removed; a
\* length of 1 modulo 4 or a code unit outside the alphabet is an
\* InvalidCharacterError.
atob(s) ==
  Bind(SelectSeq(s, LAMBDA c : c \notin {9, 10, 12, 13, 32}), LAMBDA w :
  Bind(IF Len(w) % 4 = 0 /\ Len(w) > 0 /\ w[Len(w)] = ChEquals
       THEN IF w[Len(w) - 1] = ChEquals THEN SubSeq(w, 1, Len(w) - 2)
            ELSE SubSeq(w, 1, Len(w) - 1)
       ELSE w, LAMBDA u :
    IF Len(u) % 4 = 1 \/ \E i \in 1..Len(u) : B64Index(u[i]) < 0 THEN Thrown
    ELSE Ok(B64Decode(u))))

(***************************************************************************)
(* Part 2: StateCodec (utils/crypto.ts, config.ts)                         *)
(***************************************************************************)

\* CONFIG.STATE_EXPIRATION, milliseconds.
STATE_EXPIRATION == 600000

\* CONFIG.NONCE_LENGTH, bytes.
NONCE_LENGTH == 32

\* Property names of the state object, as code units.
K_app_id == <<97, 112, 112, 95, 105, 100>>
K_provider == <<112, 114, 111, 118, 105, 100, 101, 114>>
K_redirect == <<114, 101, 100, 105, 114, 101, 99, 116>>
K_nonce == <<110, 111, 110, 99, 101>>
K_timestamp == <<116, 105, 109, 101, 115, 116, 97, 109, 112>>

\* JSON.stringify of the object literal of encodeState, whose properties are
\* written in insertion order.
StateJSON(app_id, provider, redirect, nonce, timestamp) ==
  <<123>> \o JSONQuote(K_app_id) \o <<58>> \o JSONQuote(app_id)
  \o <<44>> \o JSONQuote(K_provider) \o <<58>> \o JSONQuote(provider)
  \o <<44>> \o JSONQuote(K_redirect) \o <<58>> \o JSONQuote(redirect)
  \o <<44>> \o JSONQuote(K_nonce) \o <<58>> \o JSONQuote(nonce)
  \o <<44>> \o JSONQuote(K_timestamp) \o <<58>> \o JSONNumber(timestamp)
  \o <<125>>

\* An encodeState that stamps the token in seconds.
encodeStateSeconds(app_id, provider, redirect, nonce, t) ==
  btoa(StateJSON(app_id, provider, redirect, nonce, t \div 1000))

\* encodeState at time t (Date.now()): btoa(JSON.stringify(state)); Thrown
\* when btoa throws.
encodeState(app_id, provider, redirect, nonce, t) ==
  btoa(StateJSON(app_id, provider, redirect, nonce, t))

\* decoded.key for a parsed value: Thrown (TypeError) on null.
GetProp(v, key) ==
  IF v.t = "null" THEN Thrown
  ELSE IF v.t = "obj" /\ key \in DOMAIN v.f THEN Ok(v.f[key])
  ELSE Ok(Undefined)

\* JavaScript ToBoolean.
Truthy(v) ==
  CASE v.t = "undef" -> FALSE
    [] v.t = "null" -> FALSE
    [] v.t = "bool" -> v.b
    [] v.t = "num" -> v.n # 0
    [] v.t = "str" -> Len(v.s) > 0
    [] OTHER -> TRUE

\* JavaScript ToNumber, to [nan, n].  A string converts when, trimmed, it is
\* empty or a signed decimal integer; an array converts through its join.
NaN == [nan |-> TRUE, n |-> 0]
Num(n) == [nan |-> FALSE, n |-> n]

RECURSIVE TrimEnd(_)
TrimEnd(s) ==
  IF Len(s) > 0 /\ IsJsSpace(s[Len(s)]) THEN TrimEnd(SubSeq(s, 1, Len(s) - 1)) ELSE s

StringToNumber(s0) ==
  LET s == TrimEnd(SubSeq(s0, SkipSpace(s0, 1), Len(s0)))
      j == IF Len(s) > 0 /\ s[1] \in {43, 45} THEN 2 ELSE 1
  IN IF Len(s) = 0 THEN Num(0)
     ELSE IF j > Len(s) \/ \E i \in j..Len(s) : ~IsDigit(s[i]) THEN NaN
     ELSE Num(IF s[1] = 45 THEN 0 - DigitsValue(s, j, 0) ELSE DigitsValue(s, j, 0))

RECURSIVE ToNumber(_)
ToNumber(v) ==
  CASE v.t = "num" -> Num(v.n)
    [] v.t = "bool" -> Num(IF v.b THEN 1 ELSE 0)
    [] v.t = "null" -> Num(0)
    [] v.t = "str" -> StringToNumber(v.s)
    [] v.t = "arr" ->
         IF Len(v.a) = 0 THEN Num(0)
         ELSE IF Len(v.a) = 1 /\ v.a[1].t \in {"num", "str", "arr"} THEN ToNumber(v.a[1])
         ELSE IF Len(v.a) = 1 /\ v.a[1].t = "null" THEN Num(0)
         ELSE NaN
    [] OTHER -> NaN

\* A decodeState without the expiry test.
StateNeverExpires(now, timestamp) == FALSE

\* An expiry test that already rejects at the window itself.
StateExpiredInclusive(now, timestamp) ==
  LET t == ToNumber(timestamp)
  IN ~t.nan /\ now - t.n >= STATE_EXPIRATION

\* Date.now() - decoded.timestamp > CONFIG.STATE_EXPIRATION (false on NaN).
StateExpired(now, timestamp) ==
  LET t == ToNumber(timestamp)
  IN ~t.nan /\ now - t.n > STATE_EXPIRATION

\* The try block of decodeState at time now: Ok(decoded), Ok(JsNull) for the
\* two return null statements, Thrown when atob, JSON.parse or the property
\* access throws.
decodeStateTry(stateStr, now) ==
  Bind(atob(stateStr), LAMBDA raw :
    IF ~raw.ok THEN Thrown
    ELSE Bind(JSONParse(raw.v), LAMBDA parsed :
      IF ~parsed.ok THEN Thrown
      ELSE LET decoded == parsed.v
               P(key) == GetProp(decoded, key)
           IN IF ~P(K_app_id).ok THEN Thrown
              ELSE IF \/ ~Truthy(P(K_app_id).v) \/ ~Truthy(P(K_provider).v)
                      \/ ~Truthy(P(K_redirect).v) \/ ~Truthy(P(K_nonce).v)
                      \/ ~Truthy(P(K_timestamp).v) THEN Ok(JsNull)
              ELSE IF StateExpired(now, P(K_timestamp).v) THEN Ok(JsNull)
              ELSE Ok(decoded)))

\* A decodeState without its catch block.
Rethrow(res) == res

\* The catch block of decodeState: return null.
decodeStateCatch(res) == IF res.ok THEN res ELSE Ok(JsNull)

\* One call of decodeState: how it completes.
decodeStateCall(stateStr, now) ==
  Bind(decodeStateTry(stateStr, now), LAMBDA tried : decodeStateCatch(tried))

\* decodeState at time now: the decoded object, or JsNull.
decodeState(stateStr, now) == decodeStateCall(stateStr, now).v

(***************************************************************************)
(* Part 3: UsageLedger (plans.ts, utils/error.ts)                          *)
(***************************************************************************)

\* PlanType, in the order of the hierarchy of getRecommendedPlan.
PlanHierarchy == <<"free", "pro", "business", "enterprise">>
Plans == {PlanHierarchy[i] : i \in 1..Len(PlanHierarchy)}

\* PLAN_CONFIG[plan].daily and .monthly.
PLAN_CONFIG ==
  [p \in Plans |->
     CASE p = "free" -> [daily |-> 200, monthly |-> 6000]
       [] p = "pro" -> [daily |-> 5000, monthly |-> 150000]
       [] p = "business" -> [daily |-> 50000, monthly |-> 1500000]
       [] p = "enterprise" -> [daily |-> 100000, monthly |-> 3000000]]

\* An absent JavaScript value in a response body.
NoValue == "undefined"

\* hierarchy.indexOf(currentPlan), 1-based; 0 when absent.
PlanIndex(plan) ==
  IF plan \in Plans THEN CHOOSE i \in 1..Len(PlanHierarchy) : PlanHierarchy[i] = plan
  ELSE 0

\* A recommendation that names the plan the owner already has.
KeepPlan(currentPlan) == currentPlan

\* A recommendation that skips a tier: hierarchy[currentIndex + 2].
SkipTier(currentPlan) ==
  IF PlanIndex(currentPlan) = 0 \/ PlanIndex(currentPlan) + 2 > Len(PlanHierarchy)
  THEN NoValue
  ELSE PlanHierarchy[PlanIndex(currentPlan) + 2]

\* getRecommendedPlan(currentPlan) || undefined.
getRecommendedPlan(currentPlan) ==
  IF PlanIndex(currentPlan) = 0 \/ PlanIndex(currentPlan) = Len(PlanHierarchy)
  THEN NoValue
  ELSE PlanHierarchy[PlanIndex(currentPlan) + 1]

\* A decision that denies only above the limit.
LimitDecisionStrict(usage, plan) ==
  LET limits == PLAN_CONFIG[plan]
  IN IF usage.daily > limits.daily THEN
       [allowed |-> FALSE, reason |-> "Daily limit exceeded",
        required_plan |-> getRecommendedPlan(plan), current_usage |-> usage]
     ELSE IF usage.monthly > limits.monthly THEN
       [allowed |-> FALSE, reason |-> "Monthly limit exceeded",
        required_plan |-> getRecommendedPlan(plan), current_usage |-> usage]
     ELSE
       [allowed |-> TRUE, reason |-> NoValue,
        required_plan |-> NoValue, current_usage |-> usage]

\* The decision of checkLimits on the usage it has read.
LimitDecision(usage, plan) ==
  LET limits == PLAN_CONFIG[plan]
  IN IF usage.daily >= limits.daily THEN
       [allowed |-> FALSE, reason |-> "Daily limit exceeded",
        required_plan |-> getRecommendedPlan(plan), current_usage |-> usage]
     ELSE IF usage.monthly >= limits.monthly THEN
       [allowed |-> FALSE, reason |-> "Monthly limit exceeded",
        required_plan |-> getRecommendedPlan(plan), current_usage |-> usage]
     ELSE
       [allowed |-> TRUE, reason |-> NoValue,
        required_plan |-> NoValue, current_usage |-> usage]

\* Milliseconds of one UTC day.
DayMs == 86400000

\* The UTC civil date [y, m, d] of the day that begins days * 86400000 ms
\* after 1970-01-01T00:00Z: getUTCFullYear, getUTCMonth() + 1, getUTCDate.
CivilFromDays(days) ==
  LET z == days + 719468
      era == z \div 146097
      doe == z - era * 146097
      yoe == (doe - doe \div 1460 + doe \div 36524 - doe \div 146096) \div 365
      doy == doe - (365 * yoe + yoe \div 4 - yoe \div 100)
      mp == (5 * doy + 2) \div 153
      m == IF mp < 10 THEN mp + 3 ELSE mp - 9
  IN [y |-> yoe + era * 400 + (IF m <= 2 THEN 1 ELSE 0), m |-> m,
      d |-> doy - (153 * mp + 2) \div 5 + 1]

\* The UTC civil date of an instant (ms since 1970-01-01T00:00Z).
CivilDate(now) == CivilFromDays(now \div DayMs)

\* String(n) without padStart.
NoPad(n) == NumToStr(n)

\* String(n).padStart(2, '0').
Pad2(n) == IF n < 10 THEN <<48>> \o NumToStr(n) ELSE NumToStr(n)

\* The texts YYYYMMDD and YYYYMM of a civil date.
DayText(date) == NumToStr(date.y) \o Pad2(date.m) \o Pad2(date.d)

MonthText(date) == NumToStr(date.y) \o Pad2(date.m)

\* getCurrentDay(): YYYYMMDD; getCurrentMonth(): YYYYMM.
getCurrentDay(now) == DayText(CivilDate(now))

getCurrentMonth(now) == MonthText(CivilDate(now))

\* A daily key that leaves the developer out.
DailyKeyForAll(developerId, date) ==
  [developer |-> "all", kind |-> "day", window |-> DayText(date)]

\* The KV keys usage:<developer>:day:<YYYYMMDD> and
\* usage:<developer>:month:<YYYYMM> on a civil date.
DailyKeyOn(developerId, date) ==
  [developer |-> developerId, kind |-> "day", window |-> DayText(date)]

MonthlyKeyOn(developerId, date) ==
  [developer |-> developerId, kind |-> "month", window |-> MonthText(date)]

getDailyUsageKey(developerId, now) == DailyKeyOn(developerId, CivilDate(now))

getMonthlyUsageKey(developerId, now) == MonthlyKeyOn(developerId, CivilDate(now))

\* APP_CACHE.get(key) on a store: the stored text, or absent (null).
Absent == [present |-> FALSE, s |-> <<>>]
Stored(s) == [present |-> TRUE, s |-> s]

KVGet(store, key) == IF key \in DOMAIN store THEN Stored(store[key]) ELSE Absent

KVPut(store, key, text) == (key :> text) @@ store

\* value ? parseInt(value, 10) : 0 of getUsageStats (the store only ever
\* holds decimal texts written by incrementUsage).
UsageValue(got) ==
  IF ~got.present \/ Len(got.s) = 0 THEN 0
  ELSE IF parseInt(got.s).ok THEN parseInt(got.s).v ELSE 0

(***************************************************************************)
(* Part 4: GatewayOrchestrator (router.ts, utils/supabase.ts,              *)
(*         providers/registry.ts)                                          *)
(***************************************************************************)

\* Bounds of the model: requests in flight at once, requests in all.
MaxReq == 2
MaxStarts == 3

Requests == 1..MaxReq

\* Identifiers as code units: tenants, providers, paths.
App1 == <<97, 112, 112, 49>>
Ghost == <<103, 104, 111, 115, 116>>
Wechat == <<119, 101, 99, 104, 97, 116>>
QQ == <<113, 113>>
Weibo == <<119, 101, 105, 98, 111>>
Github == <<103, 105, 116, 104, 117, 98>>
HomePath == <<47, 104, 111, 109, 101>>
HanPath == <<47, 20013>>
SomeCode == <<99, 48, 100, 101>>
Empty == <<>>

\* The master store: the projects table and the oauth_credentials table.
Projects == (App1 :> [owner_id |-> "dev1", frontend_base_url |-> "https://app1.example"])

Credentials ==
  (App1 :> << [provider |-> Wechat, enabled |-> TRUE],
              [provider |-> QQ, enabled |-> FALSE],
              [provider |-> Github, enabled |-> TRUE] >>)

\* The keys of the providers object of the registry.
RegisteredProviders ==
  { Wechat, QQ, <<100, 111, 117, 121, 105, 110>>,
    <<100, 105, 110, 103, 116, 97, 108, 107>>, Weibo,
    <<97, 108, 105, 112, 97, 121>> }

\* name.toLowerCase() on code units.
ToLowerCase(name) ==
  SubSeq([i \in 1..Len(name) |->
            IF name[i] >= 65 /\ name[i] <= 90 THEN name[i] + 32 ELSE name[i]],
         1, Len(name))

\* getProvider(name) # null.
getProvider(name) == ToLowerCase(name) \in RegisteredProviders

\* CONFIG.CACHE_TTL and the plan cache TTL, seconds.
CACHE_TTL == 300
PLAN_CACHE_TTL == 300

\* The instants the clock can show: the start, the expiration window after
\* the start (the last millisecond of the UTC day), and one millisecond past
\* it (the first millisecond of the next day).
StartNow == DayMs - STATE_EXPIRATION - 1
TimePoints == {StartNow, StartNow + STATE_EXPIRATION, StartNow + STATE_EXPIRATION + 1}

\* generateNonce(): the hex text of NONCE_LENGTH random bytes.
HexByte(b) == <<HexDigit(b \div 16), HexDigit(b % 16)>>

generateNonce(bytes0) ==
  Bind(bytes0, LAMBDA bytes :
    SubSeq([k \in 1..(2 * Len(bytes)) |-> HexByte(bytes[(k + 1) \div 2])[2 - (k % 2)]],
           1, 2 * Len(bytes)))

\* The random bytes of the n-th nonce: fresh for every login.
RandomBytes(n) == SubSeq([i \in 1..NONCE_LENGTH |-> (n * 37 + i) % 256], 1, NONCE_LENGTH)

\* State texts a caller can present without any login: not base64 at all,
\* and tokens serialized by the caller itself (the token carries no MAC).
GarbageState == <<33, 33, 33>>
ForgedState(app_id, provider) ==
  encodeState(app_id, provider, HomePath, generateNonce(RandomBytes(0)), StartNow).v
ForgedStates ==
  {GarbageState, ForgedState(App1, Wechat), ForgedState(Ghost, Wechat),
   ForgedState(App1, Weibo)}

\* Query parameters of the login requests (an absent parameter is empty).
LoginInputs ==
  { [app_id |-> App1, provider |-> Wechat, redirect |-> HomePath],
    [app_id |-> App1, provider |-> Wechat, redirect |-> HanPath],
    [app_id |-> App1, provider |-> QQ, redirect |-> HomePath],
    [app_id |-> App1, provider |-> Github, redirect |-> HomePath],
    [app_id |-> App1, provider |-> Weibo, redirect |-> HomePath],
    [app_id |-> Ghost, provider |-> Wechat, redirect |-> HomePath],
    [app_id |-> App1, provider |-> Empty, redirect |-> HomePath] }

\* Outcomes of one outbound call to the master store / a provider.
FetchOutcomes == {"ok", "down", "throw"}

VARIABLES
  now,        \* Date.now()
  usageKV,    \* APP_CACHE entries usage:*  (key -> decimal text)
  appCache,   \* APP_CACHE entries project:* (app_id -> [config, exp])
  planCache,  \* APP_CACHE entries developer:*:plan (developer -> [plan, exp])
  ownerPlan,  \* developers.plan of dev1 in the master store
  pc,         \* position of each request in flight ("idle": none)
  loc,        \* locals of each request in flight
  trace,      \* steps each request in flight has completed, in order
  last,       \* the request that returned last: its kind, its state
              \* parameter, its steps and its response
  issued,     \* state tokens handed out by logins, with the instant of issue
  started,    \* requests started so far
  accepted,   \* how often each state text was accepted past state validation
  recorded,   \* incrementUsage executions completed
  overlap,    \* some two incrementUsage executions overlapped
  usage0,     \* usage of dev1 at the start
  master,     \* the master store as the admin API changes it: the rows of the
              \* projects and the oauth_credentials tables
  admin,      \* the admin request and the getAppConfig call in flight
  arg,        \* arguments of the function under examination
  result      \* what it returned

vars == <<now, usageKV, appCache, planCache, ownerPlan, pc, loc, trace, last,
          issued, started, accepted, recorded, overlap, usage0, master, admin,
          arg, result>>

probe == <<arg, result>>

gateway == <<now, usageKV, appCache, planCache, ownerPlan, pc, loc, trace, last,
             issued, started, accepted, recorded, overlap, usage0, master, admin>>

NoArg == [kind |-> "none"]

NoRes == [stage |-> "none"]

NoCfg == [found |-> FALSE, developer_id |-> "", frontend_base_url |-> "", providers |-> <<>>]

NoKey == [developer |-> "", kind |-> "", window |-> <<>>]

NoLoc ==
  [kind |-> "none", app_id |-> Empty, provider |-> Empty, redirect |-> Empty,
   stateStr |-> Empty, cfg |-> NoCfg, plan |-> NoValue, pend |-> {},
   dkey |-> NoKey, mkey |-> NoKey, daily |-> 0, monthly |-> 0,
   newDaily |-> 0, newMonthly |-> 0, err |-> NoValue,
   alone |-> TRUE, entryDaily |-> 0, entryMonthly |-> 0]

NoUsage == [daily |-> -1, monthly |-> -1]

NoResp ==
  [status |-> 0, error |-> NoValue, description |-> NoValue,
   current_plan |-> NoValue, required_plan |-> NoValue, current_usage |-> NoUsage,
   to |-> "none", state |-> Empty, path |-> Empty, provider |-> Empty,
   base |-> "", params |-> <<>>]

NoLast == [kind |-> "none", state |-> Empty, trace |-> <<>>, resp |-> NoResp]

\* createErrorResponse(error, description, statusCode).
createErrorResponse(error, description, statusCode) ==
  [NoResp EXCEPT !.status = statusCode, !.error = error, !.description = description]

\* getUsageStats(env, developerId) on a store, on a UTC civil date and at an
\* instant.
getUsageStatsOn(store, developerId, date) ==
  [daily |-> UsageValue(KVGet(store, DailyKeyOn(developerId, date))),
   monthly |-> UsageValue(KVGet(store, MonthlyKeyOn(developerId, date)))]

getUsageStats(store, developerId, t) == getUsageStatsOn(store, developerId, CivilDate(t))

\* Usage the store can hold for a plan at the start: nothing, one login
\* below the daily limit, at the daily limit, at the monthly limit.
StartUsages(plan) ==
  LET L == PLAN_CONFIG[plan]
  IN { [daily |-> 0, monthly |-> 0],
       [daily |-> L.daily - 1, monthly |-> L.daily - 1],
       [daily |-> L.daily, monthly |-> L.daily],
       [daily |-> L.daily - 1, monthly |-> L.monthly] }

\* The store holding these counts: a count of 0 is a key never written.
StartStore(u) ==
  LET d == IF u.daily = 0 THEN <<>>
           ELSE KVPut(<<>>, getDailyUsageKey("dev1", StartNow), NumToStr(u.daily))
  IN IF u.monthly = 0 THEN d
     ELSE KVPut(d, getMonthlyUsageKey("dev1", StartNow), NumToStr(u.monthly))

\* The master store before any admin request.
MasterAtRest == [projects |-> Projects, credentials |-> Credentials]

\* No admin request and no getAppConfig call of the admin plane in flight.
NoAdminResp == [status |-> 0, error |-> NoValue]

NoReader == [pc |-> "idle", app_id |-> Empty, cfg |-> NoCfg]

NoAdmin ==
  [pc |-> "idle", op |-> "none", project |-> Empty, provider |-> Empty,
   value |-> FALSE, trace |-> <<>>, evicted |-> FALSE, resp |-> NoAdminResp,
   reader |-> NoReader]

\* No request has arrived yet.
Quiet ==
  /\ now = StartNow
  /\ master = MasterAtRest
  /\ admin = NoAdmin
  /\ appCache = <<>>
  /\ planCache = <<>>
  /\ pc = [r \in Requests |-> "idle"]
  /\ loc = [r \in Requests |-> NoLoc]
  /\ trace = [r \in Requests |-> <<>>]
  /\ last = NoLast
  /\ issued = {}
  /\ started = 0
  /\ accepted = <<>>
  /\ recorded = 0
  /\ overlap = FALSE

Init ==
  /\ Quiet
  /\ ownerPlan \in Plans
  /\ usage0 \in StartUsages(ownerPlan)
  /\ usageKV = StartStore(usage0)
  /\ arg = NoArg
  /\ result = NoRes

\* A KV entry written with expirationTtl is readable until it expires.
CacheLive(cache, key, t) == key \in DOMAIN cache /\ t < cache[key].exp

\* The AppConfig getAppConfig builds from the two tables: the credentials
\* query selects enabled=eq.true.
BuildAppConfigFrom(store, app_id) ==
  [found |-> TRUE, developer_id |-> store.projects[app_id].owner_id,
   frontend_base_url |-> store.projects[app_id].frontend_base_url,
   providers |-> SelectSeq(store.credentials[app_id], LAMBDA c : c.enabled)]

BuildAppConfig(app_id) == BuildAppConfigFrom(MasterAtRest, app_id)

\* getCachedAppConfig(env, app_id): the cached configuration, or NoCfg for
\* null: no entry, an expired entry, or APP_CACHE.get throwing.
getCachedAppConfig(cache, app_id, cacheRead, t) ==
  IF cacheRead = "ok" /\ CacheLive(cache, app_id, t)
  THEN cache[app_id].config
  ELSE NoCfg

\* A cache write that stores nothing.
DropWrite(cache, app_id, config, cacheWrite, t) == cache

\* setCachedAppConfig(env, app_id, config): the cache afterwards; unchanged
\* when APP_CACHE.put throws.
setCachedAppConfig(cache, app_id, config, cacheWrite, t) ==
  IF cacheWrite = "ok"
  THEN (app_id :> [config |-> config, exp |-> t + CACHE_TTL * 1000]) @@ cache
  ELSE cache

\* getAppConfig(env, app_id) at time t on the given master store, with the
\* outcomes of the cache read, of the master store and of the cache write:
\* [ok, cfg, cache, reads].  ok = FALSE when masterClient.fetch throws, cfg
\* not found for the null return, reads the requests made to the master
\* store.  Outcomes of the master store: "ok"; "down" a non-success status
\* for the project; "nocreds" a non-success status for the credentials;
\* "throw" the fetch of the project throwing.
getAppConfigVia(store, app_id, cacheRead, outcome, cacheWrite, cache, t) ==
  LET cached == getCachedAppConfig(cache, app_id, cacheRead, t)
  IN IF cached.found
       THEN [ok |-> TRUE, cfg |-> cached, cache |-> cache, reads |-> 0]
     ELSE IF outcome = "throw"
       THEN [ok |-> FALSE, cfg |-> NoCfg, cache |-> cache, reads |-> 1]
     ELSE IF outcome = "down" \/ app_id \notin DOMAIN store.projects
       THEN [ok |-> TRUE, cfg |-> NoCfg, cache |-> cache, reads |-> 1]
     ELSE IF outcome = "nocreds"
       THEN [ok |-> TRUE, cfg |-> NoCfg, cache |-> cache, reads |-> 2]
     ELSE [ok |-> TRUE, cfg |-> BuildAppConfigFrom(store, app_id),
           cache |-> setCachedAppConfig(cache, app_id,
                                        BuildAppConfigFrom(store, app_id),
                                        cacheWrite, t),
           reads |-> 2]

\* getAppConfig(env, app_id) with a working cache, on the master store at
\* rest.
getAppConfig(app_id, outcome, cache, t) ==
  getAppConfigVia(MasterAtRest, app_id, "ok", outcome, "ok", cache, t)

\* developers[0].plan || 'free': the plan column of the owner's row, free
\* when it is null or the empty text.
PlanOrFree(plan) == IF plan \in {NoValue, ""} THEN "free" ELSE plan

\* A plan resolver that fails open: the top plan when the lookup fails.
getDeveloperPlanFailOpen(developerId, outcome, cache, stored, t) ==
  IF CacheLive(cache, developerId, t) /\ cache[developerId].plan \in Plans
    THEN [plan |-> cache[developerId].plan, cache |-> cache]
  ELSE IF outcome = "ok"
    THEN [plan |-> stored,
          cache |-> (developerId :> [plan |-> stored, exp |-> t + PLAN_CACHE_TTL * 1000])
                    @@ cache]
  ELSE [plan |-> "enterprise", cache |-> cache]

\* getDeveloperPlan(env, developerId): [plan, cache].  The outcome of the
\* fetch of the developers row: "ok" a success status and a row; anything
\* else a thrown fetch, a non-success status or no row.
getDeveloperPlan(developerId, outcome, cache, stored, t) ==
  IF CacheLive(cache, developerId, t) /\ cache[developerId].plan \in Plans
    THEN [plan |-> cache[developerId].plan, cache |-> cache]
  ELSE IF outcome = "ok"
    THEN [plan |-> PlanOrFree(stored),
          cache |-> (developerId :> [plan |-> PlanOrFree(stored),
                                     exp |-> t + PLAN_CACHE_TTL * 1000])
                    @@ cache]
  ELSE [plan |-> "free", cache |-> cache]

\* appConfig.providers.find(p => p.provider === name): its index, 0 if none.
FindProvider(cfg, name) ==
  IF \E i \in 1..Len(cfg.providers) : cfg.providers[i].provider = name
  THEN CHOOSE i \in 1..Len(cfg.providers) :
         /\ cfg.providers[i].provider = name
         /\ \A j \in 1..(i - 1) : cfg.providers[j].provider # name
  ELSE 0

\* An increment that counts a login twice.
NewDailyTwice(stats) == stats.daily + 2

\* stats.daily + 1 of incrementUsage.
NewDaily(stats) == stats.daily + 1

\* An increment that leaves the monthly count as read.
NewMonthlySame(stats) == stats.monthly

\* stats.monthly + 1 of incrementUsage.
NewMonthly(stats) == stats.monthly + 1

\* The 429 body of handleLogin for a denied admission.
LimitExceededResponse(limitCheck, developerPlan) ==
  [NoResp EXCEPT !.status = 429, !.error = "LIMIT_EXCEEDED",
                 !.description = limitCheck.reason,
                 !.current_plan = developerPlan,
                 !.required_plan = limitCheck.required_plan,
                 !.current_usage = limitCheck.current_usage]

\* The authorization endpoint buildAuthURL of each registered adapter puts
\* before its query string.
AuthEndpoint(provider) ==
  CASE ToLowerCase(provider) = Wechat -> "https://open.weixin.qq.com/connect/oauth2/authorize"
    [] ToLowerCase(provider) = QQ -> "https://graph.qq.com/oauth2.0/authorize"
    [] ToLowerCase(provider) = Weibo -> "https://api.weibo.com/oauth2/authorize"
    [] ToLowerCase(provider) = <<100, 111, 117, 121, 105, 110>> ->
         "https://open.douyin.com/platform/oauth/connect"
    [] ToLowerCase(provider) = <<100, 105, 110, 103, 116, 97, 108, 107>> ->
         "https://login.dingtalk.com/oauth2/auth"
    [] OTHER -> "https://openauth.alipay.com/oauth2/publicAppAuthorize.htm"

\* Response.redirect(authUrl, 302) of handleLogin: the adapter's endpoint
\* with the state among its query parameters.
ProviderRedirect(provider, state) ==
  [NoResp EXCEPT !.status = 302, !.to = "provider", !.provider = provider, !.state = state,
                 !.base = AuthEndpoint(provider), !.params = << <<"state", state>> >>]

\* What normalizeUser yields for the user behind SomeCode, and the record
\* getOrCreateUser returns for that user.
NormalizedUser ==
  [openid |-> <<111, 105, 100, 49>>, nickname |-> <<110, 105, 99, 107>>, avatar |-> Empty]

SupabaseUser == [id |-> <<117, 105, 100, 49>>]

\* new URL(redirectPath, base) for a base without a path: a redirectPath
\* with a scheme replaces the base, one starting with a slash is put behind
\* the base, any other one behind the base and a slash.
HasScheme(path) ==
  \E i \in 2..Len(path) :
    /\ path[i] = 58
    /\ \A j \in 1..(i - 1) : (path[j] >= 97 /\ path[j] <= 122) \/ (path[j] >= 65 /\ path[j] <= 90)

NewURL(redirectPath, base) ==
  IF HasScheme(redirectPath) THEN [base |-> "", path |-> redirectPath]
  ELSE IF Len(redirectPath) > 0 /\ redirectPath[1] = 47
    THEN [base |-> base, path |-> redirectPath]
  ELSE [base |-> base, path |-> <<47>> \o redirectPath]

\* A redirect to the application that carries the provider only.
AppRedirectNoUser(appConfig, providerName, redirectPath) ==
  [NoResp EXCEPT !.status = 302, !.to = "app", !.provider = providerName,
                 !.base = NewURL(redirectPath, appConfig.frontend_base_url).base,
                 !.path = NewURL(redirectPath, appConfig.frontend_base_url).path,
                 !.params = << <<"provider", providerName>> >>]

\* Response.redirect(redirectUrl, 302) of handleCallback, lines 222-231.
AppRedirect(appConfig, providerName, redirectPath) ==
  [NoResp EXCEPT !.status = 302, !.to = "app", !.provider = providerName,
                 !.base = NewURL(redirectPath, appConfig.frontend_base_url).base,
                 !.path = NewURL(redirectPath, appConfig.frontend_base_url).path,
                 !.params = << <<"provider", providerName>>,
                               <<"user_id", SupabaseUser.id>>,
                               <<"openid", NormalizedUser.openid>>,
                               <<"nickname", NormalizedUser.nickname>>,
                               <<"avatar", NormalizedUser.avatar>> >>]

ErrorRedirect(path, error, description) ==
  [NoResp EXCEPT !.status = 302, !.to = "app", !.path = path, !.error = error,
                 !.description = description]

\* A request returns: its response is handed out and its slot is free.
Return(r, kind, stateStr, steps, response) ==
  /\ pc' = [pc EXCEPT ![r] = "idle"]
  /\ loc' = [loc EXCEPT ![r] = NoLoc]
  /\ trace' = [trace EXCEPT ![r] = <<>>]
  /\ last' = [kind |-> kind, state |-> stateStr, trace |-> steps, resp |-> response]

\* A request starts in the first free slot.
BeginWithin(r, bound) ==
  /\ pc[r] = "idle"
  /\ \A q \in 1..(r - 1) : pc[q] # "idle"
  /\ started < bound
  /\ started' = started + 1

Begin(r) == BeginWithin(r, MaxStarts)

\* A request in flight moves on.
Goto(r, label, locals, step) ==
  /\ pc' = [pc EXCEPT ![r] = label]
  /\ loc' = [loc EXCEPT ![r] = locals]
  /\ trace' = [trace EXCEPT ![r] = Append(@, step)]
  /\ UNCHANGED last

\* A handler that goes on after an adapter call whatever its outcome.
IgnoreFailure(ok, next) == next

\* Where handleCallback continues after an adapter call.
AfterCall(ok, next) == IF ok THEN next ELSE "c_catch"

\* A request is inside incrementUsage.
InIncrement(r) == pc[r] \in {"c_usage", "c_put"}

----
\* handleLogin, lines 15-37: the query parameters, then getAppConfig.
LoginStartWithin(r, in, outcome, bound) ==
  /\ BeginWithin(r, bound)
  /\ LET res == getAppConfig(in.app_id, outcome, appCache, now)
         missing == in.app_id = Empty \/ in.provider = Empty \/ in.redirect = Empty
     IN /\ appCache' = IF missing THEN appCache ELSE res.cache
        /\ IF missing
             THEN Return(r, "login", Empty, <<"no_params">>,
                         createErrorResponse("missing_params", "Required parameters", 400))
           ELSE IF ~res.ok
             THEN Return(r, "login", Empty, <<"params", "threw">>,
                         createErrorResponse("internal_error", "exception message", 500))
           ELSE IF ~res.cfg.found
             THEN Return(r, "login", Empty, <<"params", "no_app">>,
                         createErrorResponse("invalid_app", "App not found", 404))
           ELSE /\ pc' = [pc EXCEPT ![r] = "l_plan"]
                /\ loc' = [loc EXCEPT ![r] = [NoLoc EXCEPT !.kind = "login",
                             !.app_id = in.app_id, !.provider = in.provider,
                             !.redirect = in.redirect, !.cfg = res.cfg]]
                /\ trace' = [trace EXCEPT ![r] = <<"params", "config">>]
                /\ UNCHANGED last
  /\ UNCHANGED <<arg, result, master, admin, now, usageKV, planCache, ownerPlan, issued, accepted,
                 recorded, overlap, usage0>>

LoginStart(r, in, outcome) == LoginStartWithin(r, in, outcome, MaxStarts)

\* handleLogin, lines 39-42: getDeveloperPlan, then checkLimits starts its
\* getUsageStats: the keys are computed and both reads are issued.
LoginPlan(r, outcome) ==
  /\ pc[r] = "l_plan"
  /\ LET dev == loc[r].cfg.developer_id
         res == getDeveloperPlan(dev, outcome, planCache, ownerPlan, now)
     IN /\ planCache' = res.cache
        /\ Goto(r, "l_usage",
                [loc[r] EXCEPT !.plan = res.plan, !.pend = {"daily", "monthly"},
                               !.dkey = getDailyUsageKey(dev, now),
                               !.mkey = getMonthlyUsageKey(dev, now)],
                "plan")
  /\ UNCHANGED <<arg, result, master, admin, now, usageKV, appCache, ownerPlan, issued, started, accepted,
                 recorded, overlap, usage0>>

\* handleLogin, lines 44-113, with the usage checkLimits has read: the
\* admission decision, the provider guards, the state token and the
\* redirect to the provider.
LoginDecide(r, l) ==
  \E state \in {encodeState(l.app_id, l.provider, l.redirect,
                             generateNonce(RandomBytes(Cardinality(issued) + 1)), now)} :
  LET limitCheck == LimitDecision([daily |-> l.daily, monthly |-> l.monthly], l.plan)
      idx == FindProvider(l.cfg, l.provider)
      steps == Append(trace[r], "usage")
  IN IF ~limitCheck.allowed
       THEN /\ Return(r, "login", Empty, Append(steps, "denied"),
                      LimitExceededResponse(limitCheck, l.plan))
            /\ UNCHANGED issued
     ELSE IF idx = 0
       THEN /\ Return(r, "login", Empty, Append(steps, "no_provider"),
                      createErrorResponse("invalid_provider", "not configured", 404))
            /\ UNCHANGED issued
     ELSE IF ~l.cfg.providers[idx].enabled
       THEN /\ Return(r, "login", Empty, Append(steps, "disabled"),
                      createErrorResponse("provider_disabled", "disabled", 403))
            /\ UNCHANGED issued
     ELSE IF ~getProvider(l.provider)
       THEN /\ Return(r, "login", Empty, Append(steps, "unsupported"),
                      createErrorResponse("invalid_provider", "not supported", 500))
            /\ UNCHANGED issued
     ELSE IF ~state.ok
       THEN /\ Return(r, "login", Empty, Append(steps, "threw"),
                      createErrorResponse("internal_error", "exception message", 500))
            /\ UNCHANGED issued
     ELSE /\ Return(r, "login", Empty, steps \o <<"admitted", "token", "redirect">>,
                    ProviderRedirect(l.provider, state.v))
          /\ issued' = issued \cup {[state |-> state.v, at |-> now]}

\* incrementUsage, lines 156-173, with the usage it has read: the new values
\* are computed and the two APP_CACHE.put calls are issued.
IncrementCompute(r, l) ==
  /\ Goto(r, "c_put",
          [l EXCEPT !.newDaily = NewDaily([daily |-> l.daily, monthly |-> l.monthly]),
                    !.newMonthly = NewMonthly([daily |-> l.daily, monthly |-> l.monthly]),
                    !.pend = {"daily", "monthly"}],
          "usage")
  /\ UNCHANGED issued

\* getUsageStats, lines 132-140: one of the two APP_CACHE.get calls of the
\* Promise.all answers; after the second one the caller continues.
ReadUsage(r, which) ==
  /\ pc[r] \in {"l_usage", "c_usage"}
  /\ which \in loc[r].pend
  /\ \E l \in {[loc[r] EXCEPT
                   !.pend = @ \ {which},
                   !.daily = IF which = "daily"
                             THEN UsageValue(KVGet(usageKV, loc[r].dkey)) ELSE @,
                   !.monthly = IF which = "monthly"
                               THEN UsageValue(KVGet(usageKV, loc[r].mkey)) ELSE @]} :
        IF l.pend # {}
          THEN /\ loc' = [loc EXCEPT ![r] = l]
               /\ UNCHANGED <<pc, trace, last, issued>>
        ELSE IF pc[r] = "l_usage" THEN LoginDecide(r, l)
        ELSE IncrementCompute(r, l)
  /\ UNCHANGED <<arg, result, master, admin, now, usageKV, appCache, planCache, ownerPlan, started, accepted,
                 recorded, overlap, usage0>>

\* A field of a validated state token whose fields are strings.
Field(state, key) == GetProp(state, key).v.s

\* One more acceptance of a state text.
Accept(acc, stateStr) ==
  IF stateStr \in DOMAIN acc THEN [acc EXCEPT ![stateStr] = @ + 1]
  ELSE (stateStr :> 1) @@ acc

\* handleCallback, lines 129-186: the query parameters, decodeState, then
\* getAppConfig and the provider guards.
CallbackStartWithin(r, code, stateStr, outcome, bound) ==
  /\ BeginWithin(r, bound)
  /\ \E state \in {decodeState(stateStr, now)} :
     LET missing == code = Empty \/ stateStr = Empty
         valid == ~missing /\ state # JsNull
         app_id == Field(state, K_app_id)
         providerName == Field(state, K_provider)
         res == getAppConfig(app_id, outcome, appCache, now)
         l0 == [NoLoc EXCEPT !.kind = "callback", !.app_id = app_id,
                             !.provider = providerName,
                             !.redirect = Field(state, K_redirect),
                             !.stateStr = stateStr]
     IN /\ accepted' = IF valid THEN Accept(accepted, stateStr) ELSE accepted
        /\ appCache' = IF valid THEN res.cache ELSE appCache
        /\ IF missing
             THEN Return(r, "callback", stateStr, <<"no_params">>,
                         createErrorResponse("missing_params", "Required parameters", 400))
           ELSE IF state = JsNull
             THEN Return(r, "callback", stateStr, <<"params", "bad_state">>,
                         createErrorResponse("invalid_state", "State is invalid or expired", 400))
           ELSE IF ~res.ok
             THEN /\ pc' = [pc EXCEPT ![r] = "c_catch"]
                  /\ loc' = [loc EXCEPT ![r] = [l0 EXCEPT !.err = "config"]]
                  /\ trace' = [trace EXCEPT ![r] = <<"params", "state", "threw">>]
                  /\ UNCHANGED last
           ELSE IF ~res.cfg.found
             THEN Return(r, "callback", stateStr, <<"params", "state", "no_app">>,
                         createErrorResponse("invalid_app", "App not found", 404))
           ELSE IF FindProvider(res.cfg, providerName) = 0
             THEN Return(r, "callback", stateStr, <<"params", "state", "config", "no_provider">>,
                         createErrorResponse("invalid_provider", "not configured", 400))
           ELSE IF ~getProvider(providerName)
             THEN Return(r, "callback", stateStr, <<"params", "state", "config", "unsupported">>,
                         createErrorResponse("invalid_provider", "not supported", 400))
           ELSE /\ pc' = [pc EXCEPT ![r] = "c_exchange"]
                /\ loc' = [loc EXCEPT ![r] = [l0 EXCEPT !.cfg = res.cfg]]
                /\ trace' = [trace EXCEPT ![r] = <<"params", "state", "config">>]
                /\ UNCHANGED last
  /\ UNCHANGED <<arg, result, master, admin, now, usageKV, planCache, ownerPlan, issued, recorded, overlap, usage0>>

CallbackStart(r, code, stateStr, outcome) ==
  CallbackStartWithin(r, code, stateStr, outcome, MaxStarts)

\* handleCallback, line 192: provider.exchangeCodeForToken.
CallbackExchange(r, ok) ==
  /\ pc[r] = "c_exchange"
  /\ Goto(r, AfterCall(ok, "c_userinfo"),
          [loc[r] EXCEPT !.err = IF ok THEN @ ELSE "exchange"],
          IF ok THEN "exchanged" ELSE "threw")
  /\ UNCHANGED <<arg, result, master, admin, now, usageKV, appCache, planCache, ownerPlan, issued, started,
                 accepted, recorded, overlap, usage0>>

\* handleCallback, lines 196-199: provider.getUserInfo and normalizeUser.
CallbackUserInfo(r, ok) ==
  /\ pc[r] = "c_userinfo"
  /\ Goto(r, AfterCall(ok, "c_identity"),
          [loc[r] EXCEPT !.err = IF ok THEN @ ELSE "userinfo"],
          IF ok THEN "userinfo" ELSE "threw")
  /\ UNCHANGED <<arg, result, master, admin, now, usageKV, appCache, planCache, ownerPlan, issued, started,
                 accepted, recorded, overlap, usage0>>

\* handleCallback, lines 212-218: getOrCreateUser, then incrementUsage is
\* entered: it computes its keys and getUsageStats issues both reads.
CallbackIdentity(r, ok) ==
  /\ pc[r] = "c_identity"
  /\ LET dev == loc[r].cfg.developer_id
         busy == \E q \in Requests : InIncrement(q)
         entry == [loc[r] EXCEPT
                     !.pend = {"daily", "monthly"},
                     !.dkey = getDailyUsageKey(dev, now),
                     !.mkey = getMonthlyUsageKey(dev, now),
                     !.alone = ~busy,
                     !.entryDaily = getUsageStats(usageKV, dev, now).daily,
                     !.entryMonthly = getUsageStats(usageKV, dev, now).monthly]
     IN IF ok
          THEN /\ pc' = [pc EXCEPT ![r] = "c_usage"]
               /\ loc' = [q \in Requests |->
                            IF q = r THEN entry
                            ELSE IF InIncrement(q) THEN [loc[q] EXCEPT !.alone = FALSE]
                            ELSE loc[q]]
               /\ trace' = [trace EXCEPT ![r] = Append(@, "identity")]
               /\ overlap' = (overlap \/ busy)
               /\ UNCHANGED last
        ELSE /\ Goto(r, "c_catch", [loc[r] EXCEPT !.err = "identity"], "threw")
             /\ UNCHANGED overlap
  /\ UNCHANGED <<arg, result, master, admin, now, usageKV, appCache, planCache, ownerPlan, issued, started,
                 accepted, recorded, usage0>>

\* incrementUsage, lines 170-173: one of the two APP_CACHE.put calls of the
\* Promise.all lands; after the second one handleCallback redirects to the
\* tenant's application (lines 222-231).
PutUsage(r, which) ==
  /\ pc[r] = "c_put"
  /\ which \in loc[r].pend
  /\ usageKV' = IF which = "daily"
                THEN KVPut(usageKV, loc[r].dkey, NumToStr(loc[r].newDaily))
                ELSE KVPut(usageKV, loc[r].mkey, NumToStr(loc[r].newMonthly))
  /\ IF loc[r].pend = {which}
       THEN /\ Return(r, "callback", loc[r].stateStr, trace[r] \o <<"recorded", "redirect">>,
                      AppRedirect(loc[r].cfg, loc[r].provider, loc[r].redirect))
            /\ recorded' = recorded + 1
     ELSE /\ loc' = [loc EXCEPT ![r].pend = @ \ {which}]
          /\ UNCHANGED <<pc, trace, last, recorded>>
  /\ UNCHANGED <<arg, result, master, admin, now, appCache, planCache, ownerPlan, issued, started, accepted,
                 overlap, usage0>>

\* handleCallback, lines 233-257: the catch block looks the tenant up again
\* to redirect with the error, and answers 500 when it cannot.
CallbackCatch(r, outcome) ==
  /\ pc[r] = "c_catch"
  /\ LET res == getAppConfig(loc[r].app_id, outcome, appCache, now)
     IN /\ appCache' = res.cache
        /\ IF res.ok /\ res.cfg.found
             THEN Return(r, "callback", loc[r].stateStr, Append(trace[r], "error_redirect"),
                         ErrorRedirect(loc[r].redirect, "oauth_failed", loc[r].err))
           ELSE Return(r, "callback", loc[r].stateStr, Append(trace[r], "error_500"),
                       createErrorResponse("oauth_failed", loc[r].err, 500))
  /\ UNCHANGED <<arg, result, master, admin, now, usageKV, planCache, ownerPlan, issued, started, accepted,
                 recorded, overlap, usage0>>

\* Time passes.
Tick(t) ==
  /\ t > now
  /\ now' = t
  /\ UNCHANGED <<arg, result, master, admin, usageKV, appCache, planCache, ownerPlan, pc, loc, trace, last,
                 issued, started, accepted, recorded, overlap, usage0>>

\* What a call to a store or to a provider is answered with: a success, a
\* failure, or nothing at all.
Answers == {"ok", "fail", "never"}

\* fetchWithTimeout (providers/base.ts 54-69) and SupabaseClient.fetch
\* (utils/supabase.ts 20-54): controller.abort() at the timeout makes a fetch
\* that has no answer reject; an answer is passed on.
WithTimeout(answer) == IF answer = "never" THEN "throw" ELSE answer

\* The outcome of getAppConfig for an answer of the master store.
StoreOutcome(answer) ==
  CASE WithTimeout(answer) = "ok" -> "ok"
    [] WithTimeout(answer) = "fail" -> "down"
    [] OTHER -> "throw"

\* An adapter call or getOrCreateUser returns, rather than throws.
CallOk(answer) == WithTimeout(answer) = "ok"

\* getDeveloperPlan, lines 230-239: the plan is not cached and the fetch of
\* the developers row, which is given no signal, has no answer; nothing
\* settles its promise.
LoginPlanUnanswered(r) ==
  /\ pc[r] = "l_plan"
  /\ ~(CacheLive(planCache, loc[r].cfg.developer_id, now)
       /\ planCache[loc[r].cfg.developer_id].plan \in Plans)
  /\ Goto(r, "l_plan_fetch", loc[r], "plan_fetch")
  /\ UNCHANGED <<arg, result, master, admin, now, usageKV, appCache, planCache, ownerPlan, issued,
                 started, accepted, recorded, overlap, usage0>>

\* State texts a callback can carry: none, tokens handed out, forged ones.
CallbackStates == {Empty} \cup {tok.state : tok \in issued} \cup ForgedStates

Next ==
  \/ \E r \in Requests, in \in LoginInputs, o \in FetchOutcomes : LoginStart(r, in, o)
  \/ \E r \in Requests, o \in {"ok", "throw"} : LoginPlan(r, o)
  \/ \E r \in Requests, w \in {"daily", "monthly"} : ReadUsage(r, w)
  \/ \E r \in Requests, s \in CallbackStates, o \in FetchOutcomes :
       CallbackStart(r, SomeCode, s, o)
  \/ \E r \in Requests, ok \in BOOLEAN : CallbackExchange(r, ok)
  \/ \E r \in Requests, ok \in BOOLEAN : CallbackUserInfo(r, ok)
  \/ \E r \in Requests, ok \in BOOLEAN : CallbackIdentity(r, ok)
  \/ \E r \in Requests, w \in {"daily", "monthly"} : PutUsage(r, w)
  \/ \E r \in Requests, o \in FetchOutcomes : CallbackCatch(r, o)
  \/ \E t \in TimePoints : Tick(t)

Spec == Init /\ [][Next]_vars

(***************************************************************************)
(* Part 5: the flows and the functions examined on their own               *)
(***************************************************************************)

\* The login of the walkthrough: tenant app1 through wechat.
WechatLogin == [app_id |-> App1, provider |-> Wechat, redirect |-> HomePath]

\* Admission: login requests alone, for every plan and starting usage.
AdmissionInputs ==
  { WechatLogin,
    [app_id |-> App1, provider |-> Weibo, redirect |-> HomePath],
    [app_id |-> App1, provider |-> Wechat, redirect |-> HanPath] }

NextAdmission ==
  \/ \E r \in Requests, in \in AdmissionInputs : LoginStart(r, in, "ok")
  \/ \E r \in Requests, o \in {"ok", "throw"} : LoginPlan(r, o)
  \/ \E r \in Requests, w \in {"daily", "monthly"} : ReadUsage(r, w)

SpecAdmission == Init /\ [][NextAdmission]_vars

\* A free-plan owner with no usage yet, or one login below the daily limit.
InitFree ==
  /\ Init
  /\ ownerPlan = "free"
  /\ usage0.monthly < PLAN_CONFIG["free"].daily

\* Recording: logins and callbacks of one tenant inside one window.
NextRecord ==
  \/ \E r \in Requests : LoginStart(r, WechatLogin, "ok")
  \/ \E r \in Requests : LoginPlan(r, "ok")
  \/ \E r \in Requests, w \in {"daily", "monthly"} : ReadUsage(r, w)
  \/ \E r \in Requests, s \in CallbackStates, o \in {"ok", "throw"} :
       CallbackStart(r, SomeCode, s, o)
  \/ \E r \in Requests, ok \in BOOLEAN : CallbackExchange(r, ok)
  \/ \E r \in Requests, ok \in BOOLEAN : CallbackUserInfo(r, ok)
  \/ \E r \in Requests, ok \in BOOLEAN : CallbackIdentity(r, ok)
  \/ \E r \in Requests, w \in {"daily", "monthly"} : PutUsage(r, w)
  \/ \E r \in Requests, o \in {"ok", "down"} : CallbackCatch(r, o)

SpecRecord == InitFree /\ [][NextRecord]_vars

\* Replay: the tokens logins hand out, presented to callbacks as time passes.
NextReplay ==
  \/ \E r \in Requests : LoginStart(r, WechatLogin, "ok")
  \/ \E r \in Requests : LoginPlan(r, "ok")
  \/ \E r \in Requests, w \in {"daily", "monthly"} : ReadUsage(r, w)
  \/ \E r \in Requests, tok \in issued : CallbackStart(r, SomeCode, tok.state, "ok")
  \/ \E r \in Requests, ok \in BOOLEAN : CallbackExchange(r, ok)
  \/ \E r \in Requests : CallbackUserInfo(r, TRUE)
  \/ \E r \in Requests : CallbackIdentity(r, TRUE)
  \/ \E r \in Requests, w \in {"daily", "monthly"} : PutUsage(r, w)
  \/ \E r \in Requests : CallbackCatch(r, "ok")
  \/ \E t \in TimePoints : Tick(t)

SpecReplay == InitFree /\ [][NextReplay]_vars

\* Outcomes of the fetch of the developers row in getDeveloperPlan: a row,
\* a thrown fetch, a non-success status, no row for the owner.
PlanOutcomes == {"ok", "throw", "status", "empty"}

\* Plan resolution: logins of an owner on any plan; the clock can move to
\* an instant of the same day at which a plan cached at the start has
\* expired.
NextPlan ==
  \/ \E r \in Requests : LoginStart(r, WechatLogin, "ok")
  \/ \E r \in Requests, o \in PlanOutcomes : LoginPlan(r, o)
  \/ \E r \in Requests, w \in {"daily", "monthly"} : ReadUsage(r, w)
  \/ Tick(StartNow + STATE_EXPIRATION)

SpecPlan == Init /\ [][NextPlan]_vars

\* Stores and providers that answer, fail or stay silent: a step of a
\* request in flight, and the start of a request.
HangStep(r) ==
  \/ \E o \in {"ok", "throw"} : LoginPlan(r, o)
  \/ LoginPlanUnanswered(r)
  \/ \E w \in {"daily", "monthly"} : ReadUsage(r, w)
  \/ \E a \in Answers : CallbackExchange(r, CallOk(a))
  \/ \E a \in Answers : CallbackUserInfo(r, CallOk(a))
  \/ \E a \in Answers : CallbackIdentity(r, CallOk(a))
  \/ \E w \in {"daily", "monthly"} : PutUsage(r, w)
  \/ \E a \in Answers : CallbackCatch(r, StoreOutcome(a))

HangStart(r) ==
  \/ \E a \in Answers : LoginStart(r, WechatLogin, StoreOutcome(a))
  \/ \E tok \in issued, a \in Answers :
       CallbackStart(r, SomeCode, tok.state, StoreOutcome(a))

NextHang == \E r \in Requests : HangStart(r) \/ HangStep(r)

\* A request in flight whose next step can be taken takes it: the event
\* loop runs every continuation whose promise has settled.
SpecHang ==
  /\ InitFree
  /\ [][NextHang]_vars
  /\ \A r \in Requests : WF_vars(HangStep(r))

\* getDeveloperPlan, line 223: APP_CACHE.get is awaited outside the try of
\* getDeveloperPlan; when it rejects, the catch of handleLogin (lines
\* 115-122) answers 500.
LoginPlanThrows(r) ==
  /\ pc[r] = "l_plan"
  /\ Return(r, "login", Empty, Append(trace[r], "threw"),
            createErrorResponse("internal_error", "exception message", 500))
  /\ UNCHANGED <<arg, result, master, admin, now, usageKV, appCache, planCache, ownerPlan, issued,
                 started, accepted, recorded, overlap, usage0>>

\* getUsageStats, lines 132-135: one APP_CACHE.get of the Promise.all
\* rejects.  checkLimits passes the rejection to the catch of handleLogin,
\* incrementUsage to the catch of handleCallback.
ReadUsageThrows(r) ==
  /\ pc[r] \in {"l_usage", "c_usage"}
  /\ loc[r].pend # {}
  /\ IF pc[r] = "l_usage"
       THEN Return(r, "login", Empty, Append(trace[r], "threw"),
                   createErrorResponse("internal_error", "exception message", 500))
     ELSE Goto(r, "c_catch", [loc[r] EXCEPT !.pend = {}, !.err = "usage"], "threw")
  /\ UNCHANGED <<arg, result, master, admin, now, usageKV, appCache, planCache, ownerPlan, issued,
                 started, accepted, recorded, overlap, usage0>>

\* incrementUsage, lines 170-173: one APP_CACHE.put of the Promise.all
\* rejects and handleCallback enters its catch block; the other put, if it
\* has not landed, is still outstanding.
PutUsageThrows(r, which) ==
  /\ pc[r] = "c_put"
  /\ which \in loc[r].pend
  /\ Goto(r, "c_catch", [loc[r] EXCEPT !.pend = @ \ {which}, !.err = "usage"], "threw")
  /\ UNCHANGED <<arg, result, master, admin, now, usageKV, appCache, planCache, ownerPlan, issued,
                 started, accepted, recorded, overlap, usage0>>

\* The put left outstanding by a rejected Promise.all lands while the catch
\* block of handleCallback awaits getAppConfig (line 239).  No waitUntil
\* keeps it alive once the response is returned.
PutUsageLate(r, which) ==
  /\ pc[r] = "c_catch"
  /\ which \in loc[r].pend
  /\ usageKV' = IF which = "daily"
                THEN KVPut(usageKV, loc[r].dkey, NumToStr(loc[r].newDaily))
                ELSE KVPut(usageKV, loc[r].mkey, NumToStr(loc[r].newMonthly))
  /\ loc' = [loc EXCEPT ![r].pend = @ \ {which}]
  /\ UNCHANGED <<arg, result, master, admin, now, appCache, planCache, ownerPlan, pc, trace, last,
                 issued, started, accepted, recorded, overlap, usage0>>

\* The step of a request in flight at which what it awaits fails.
FailStep(r) ==
  \/ LoginPlanThrows(r)
  \/ ReadUsageThrows(r)
  \/ CallbackExchange(r, FALSE)
  \/ CallbackUserInfo(r, FALSE)
  \/ CallbackIdentity(r, FALSE)
  \/ \E w \in {"daily", "monthly"} : PutUsageThrows(r, w)
  \/ \E o \in {"ok", "down"} : CallbackCatch(r, o)

\* The state machine of the two handlers: every await of a request either
\* succeeds or fails.
NextMachine ==
  \/ \E r \in Requests, in \in AdmissionInputs : LoginStart(r, in, "ok")
  \/ \E r \in Requests : LoginPlan(r, "ok")
  \/ \E r \in Requests, w \in {"daily", "monthly"} : ReadUsage(r, w)
  \/ \E r \in Requests, tok \in issued, o \in {"ok", "throw"} :
       CallbackStart(r, SomeCode, tok.state, o)
  \/ \E r \in Requests : CallbackExchange(r, TRUE)
  \/ \E r \in Requests : CallbackUserInfo(r, TRUE)
  \/ \E r \in Requests : CallbackIdentity(r, TRUE)
  \/ \E r \in Requests, w \in {"daily", "monthly"} : PutUsage(r, w)
  \/ \E r \in Requests, w \in {"daily", "monthly"} : PutUsageLate(r, w)
  \/ \E r \in Requests : FailStep(r)

SpecMachine == InitFree /\ [][NextMachine]_vars

\* Guards: one login request, held in arg, for every plan and starting
\* usage.  The logins name the tenant app1 or an unknown one, with wechat
\* (enabled), qq (disabled), github (enabled, no adapter), weibo and x (not
\* configured), or no provider.
GuardInputs ==
  [app_id : {App1, Ghost}, provider : {Wechat, QQ, Github, Weibo, <<120>>, Empty},
   redirect : {HomePath}]

InitGuards ==
  /\ Quiet
  /\ ownerPlan \in Plans
  /\ usage0 \in StartUsages(ownerPlan)
  /\ usageKV = StartStore(usage0)
  /\ arg \in [kind : {"login"}, in : GuardInputs]
  /\ result = NoRes

NextGuards ==
  \/ \E r \in Requests : LoginStart(r, arg.in, "ok")
  \/ \E r \in Requests : LoginPlan(r, "ok")
  \/ \E r \in Requests, w \in {"daily", "monthly"} : ReadUsage(r, w)

SpecGuards == InitGuards /\ [][NextGuards]_vars

\* Rejection: callbacks presenting text that is no token and the tokens
\* logins handed out, as time passes.
RejectStates == {GarbageState} \cup {tok.state : tok \in issued}

NextReject ==
  \/ \E r \in Requests : LoginStart(r, WechatLogin, "ok")
  \/ \E r \in Requests : LoginPlan(r, "ok")
  \/ \E r \in Requests, w \in {"daily", "monthly"} : ReadUsage(r, w)
  \/ \E r \in Requests, s \in RejectStates : CallbackStart(r, SomeCode, s, "ok")
  \/ \E r \in Requests : CallbackExchange(r, TRUE)
  \/ \E r \in Requests : CallbackUserInfo(r, TRUE)
  \/ \E r \in Requests : CallbackIdentity(r, TRUE)
  \/ \E r \in Requests, w \in {"daily", "monthly"} : PutUsage(r, w)
  \/ \E t \in TimePoints : Tick(t)

SpecReject == InitFree /\ [][NextReject]_vars

\* checkLimits(env, developerId, plan), lines 179-211, on a store at rest.
checkLimits(store, developerId, plan, t) ==
  LimitDecision(getUsageStats(store, developerId, t), plan)

\* Counter values around a limit.
LimitCounts(limit) == {0, 1, limit - 1, limit, limit + 1}

\* checkLimits on its own: every plan, counters around both limits.
InitLimits ==
  /\ Quiet
  /\ ownerPlan \in Plans
  /\ usage0 \in [daily : LimitCounts(PLAN_CONFIG[ownerPlan].daily),
                 monthly : LimitCounts(PLAN_CONFIG[ownerPlan].monthly)]
  /\ usageKV = StartStore(usage0)
  /\ arg = [kind |-> "limits"]
  /\ result = NoRes

CheckLimits ==
  /\ arg.kind = "limits"
  /\ result.stage = "none"
  /\ result' = [stage |-> "decided", out |-> checkLimits(usageKV, "dev1", ownerPlan, now)]
  /\ UNCHANGED <<arg, gateway>>

NextLimits == CheckLimits

SpecLimits == InitLimits /\ [][NextLimits]_vars

\* ---- The Alipay adapter: signRequest and verifySignature
\* ---- (providers/douyin.ts, class AlipayProvider).

\* Parameter names and values as code units.
KeyAppId == <<97, 112, 112, 95, 105, 100>>
KeyCode == <<99, 111, 100, 101>>
KeyMethod == <<109, 101, 116, 104, 111, 100>>
KeySign == <<115, 105, 103, 110>>
KeySignType == <<115, 105, 103, 110, 95, 116, 121, 112, 101>>
ValAppId == <<50, 48, 50, 49, 48, 48, 49>>
ValMethod == <<97, 108, 105, 112, 97, 121, 46, 115, 121, 115, 116, 101, 109, 46, 111, 97, 117, 116, 104, 46, 116, 111, 107, 101, 110>>
ValRSA2 == <<82, 83, 65, 50>>

\* The default comparison of Array.prototype.sort: by code units, a proper
\* prefix first.
CodeUnitLess(a, b) ==
  \/ Len(a) < Len(b) /\ SubSeq(b, 1, Len(a)) = a
  \/ \E i \in 1..Len(a) :
       /\ i <= Len(b)
       /\ SubSeq(a, 1, i - 1) = SubSeq(b, 1, i - 1)
       /\ a[i] < b[i]

\* Object.keys(params).sort().
RECURSIVE SortedKeys(_)
SortedKeys(keys) ==
  IF keys = {} THEN <<>>
  ELSE LET first == CHOOSE k \in keys : \A o \in keys \ {k} : CodeUnitLess(k, o)
       IN <<first>> \o SortedKeys(keys \ {first})

\* sortedKeys.map(key => `${key}=${params[key]}`).join('&')
RECURSIVE JoinPairs(_, _, _)
JoinPairs(params, keys, i) ==
  IF i > Len(keys) THEN <<>>
  ELSE (IF i > 1 THEN <<ChAmp>> ELSE <<>>)
       \o keys[i] \o <<ChEquals>> \o params[keys[i]]
       \o JoinPairs(params, keys, i + 1)

SignString(params) == JoinPairs(params, SortedKeys(DOMAIN params), 1)

\* new TextEncoder().encode(s): UTF-8 of the code points of s; a surrogate
\* pair is one code point of four bytes, a surrogate on its own is replaced
\* by U+FFFD (EF BF BD).
IsHighSurrogate(c) == c >= 55296 /\ c <= 56319

IsLowSurrogate(c) == c >= 56320 /\ c <= 57343

Utf8CodePoint(cp) ==
  IF cp < 128 THEN <<cp>>
  ELSE IF cp < 2048 THEN <<192 + (cp \div 64), 128 + (cp % 64)>>
  ELSE IF cp < 65536
    THEN <<224 + (cp \div 4096), 128 + ((cp \div 64) % 64), 128 + (cp % 64)>>
  ELSE <<240 + (cp \div 262144), 128 + ((cp \div 4096) % 64),
         128 + ((cp \div 64) % 64), 128 + (cp % 64)>>

\* The bytes of the code unit at position i: a high surrogate followed by a
\* low one is one code point of four bytes, the low one of the pair gives
\* nothing more, a lone surrogate becomes U+FFFD.
Utf8Unit(s, i) ==
  IF IsHighSurrogate(s[i]) /\ i < Len(s) /\ IsLowSurrogate(s[i + 1])
    THEN Utf8CodePoint(65536 + (s[i] - 55296) * 1024 + (s[i + 1] - 56320))
  ELSE IF IsLowSurrogate(s[i]) /\ i > 1 /\ IsHighSurrogate(s[i - 1])
    THEN <<>>
  ELSE IF IsHighSurrogate(s[i]) \/ IsLowSurrogate(s[i])
    THEN <<239, 191, 189>>
  ELSE Utf8CodePoint(s[i])

RECURSIVE Utf8Range(_, _, _)
Utf8Range(s, lo, hi) ==
  IF lo > hi THEN <<>>
  ELSE IF lo = hi THEN Utf8Unit(s, lo)
  ELSE Utf8Range(s, lo, (lo + hi) \div 2) \o Utf8Range(s, (lo + hi) \div 2 + 1, hi)

\* The bytes of the text from its first code unit on (i = 1).
Utf8(s, i) == Utf8Range(s, i, Len(s))

\* crypto.subtle.sign and crypto.subtle.verify with RSASSA-PKCS1-v1_5 and
\* SHA-256, for key pairs numbered 1, 2: the signature is a function of
\* the key and of the data, taken as free of collisions, and the public
\* key of a pair accepts the signatures of its private key on the same
\* data and nothing else.
SubtleSign(privateKey, data) == <<privateKey>> \o data

SubtleVerify(publicKey, signatureBytes, data) ==
  signatureBytes = SubtleSign(publicKey, data)

\* arrayBufferToBase64(buffer): btoa of the bytes as code units.
arrayBufferToBase64(bytes) == btoa(bytes).v

\* signRequest(params, privateKeyPem), lines 232-253: every entry of params
\* goes into the string that is signed.
signRequest(params, privateKey) ==
  arrayBufferToBase64(SubtleSign(privateKey, Utf8(SignString(params), 1)))

\* const { sign, sign_type, ...verifyParams } = params
VerifyParams(params) ==
  [k \in DOMAIN params \ {KeySign, KeySignType} |-> params[k]]

KeyPairs == {1, 2}

\* A public key text that is no key.
BadKey == 0

\* importPublicKey(publicKeyPem), lines 324-344: atob or importKey throws
\* for a text that is no SPKI key.
importPublicKey(publicKeyPem) ==
  IF publicKeyPem \in KeyPairs THEN Ok(publicKeyPem) ELSE Thrown

\* The try block of verifySignature, lines 291-314.
verifySignatureTry(params, signature, publicKeyPem) ==
  Bind(importPublicKey(publicKeyPem), LAMBDA key :
  Bind(atob(signature), LAMBDA sig :
    IF ~key.ok \/ ~sig.ok THEN Thrown
    ELSE Ok(SubtleVerify(key.v, sig.v, Utf8(SignString(VerifyParams(params)), 1)))))

\* verifySignature(params, signature, alipayPublicKey), lines 285-319: the
\* catch block returns false.
verifySignature(params, signature, publicKeyPem) ==
  Bind(verifySignatureTry(params, signature, publicKeyPem), LAMBDA res :
    IF res.ok THEN res.v ELSE FALSE)

\* Parameter sets: app_id and code always, method and sign_type (as in the
\* requests of exchangeCodeForToken and getUserInfo) or not.
ParamSets ==
  { [k \in {KeyAppId, KeyCode} \cup opt |->
       CASE k = KeyAppId -> ValAppId
         [] k = KeyCode -> code
         [] k = KeyMethod -> ValMethod
         [] OTHER -> ValRSA2] :
      opt \in SUBSET {KeyMethod, KeySignType},
      code \in {SomeCode, HanPath, Empty} }

\* A parameter set, the private key that signs and the public key that
\* verifies.
InitSign ==
  /\ Quiet
  /\ ownerPlan = "free"
  /\ usage0 = [daily |-> 0, monthly |-> 0]
  /\ usageKV = <<>>
  /\ arg \in [kind : {"sign"}, params : ParamSets, privateKey : KeyPairs,
              publicKey : KeyPairs]
  /\ result = NoRes

SignRequest ==
  /\ arg.kind = "sign"
  /\ result.stage = "none"
  /\ result' = [stage |-> "signed", sign |-> signRequest(arg.params, arg.privateKey),
                valid |-> FALSE]
  /\ UNCHANGED <<arg, gateway>>

VerifySignature ==
  /\ result.stage = "signed"
  /\ result' = [result EXCEPT !.stage = "verified",
                              !.valid = verifySignature(arg.params, result.sign,
                                                        arg.publicKey)]
  /\ UNCHANGED <<arg, gateway>>

NextSign == SignRequest \/ VerifySignature

SpecSign == InitSign /\ [][NextSign]_vars

\* Values on their own surrogates, and the text of a further pair.
LoneHigh == <<55296>>
LoneLow == <<56321>>
PairText == <<38, 115, 105, 103, 110, 95, 116, 121, 112, 101, 61, 82, 83, 65, 50>>

\* Signed parameter sets: app_id and code, with sign_type or not; the code
\* plain or a surrogate on its own.
TamperSets ==
  { [k \in {KeyAppId, KeyCode} \cup opt |->
       CASE k = KeyAppId -> ValAppId
         [] k = KeyCode -> code
         [] OTHER -> ValRSA2] :
      opt \in SUBSET {KeySignType}, code \in {SomeCode, LoneHigh} }

\* The values a parameter is changed to.
TamperValues(params, key) ==
  {SomeCode, HanPath, LoneHigh, LoneLow, ValAppId, ValRSA2, params[key] \o PairText}
    \ {params[key]}

\* A text that is no base64.
BadBase64 == <<33>>

\* A parameter set, the key that signs, the key text given to the verifier
\* and whether the signature reaches it as it was made.
InitTamper ==
  /\ Quiet
  /\ ownerPlan = "free"
  /\ usage0 = [daily |-> 0, monthly |-> 0]
  /\ usageKV = <<>>
  /\ arg \in [kind : {"tamper"}, params : TamperSets, privateKey : KeyPairs,
              publicKey : KeyPairs \cup {BadKey}, garbled : BOOLEAN]
  /\ result = NoRes

SignOriginal ==
  /\ arg.kind = "tamper"
  /\ result.stage = "none"
  /\ result' = [stage |-> "signed", sign |-> signRequest(arg.params, arg.privateKey),
                valid |-> FALSE, params |-> arg.params]
  /\ UNCHANGED <<arg, gateway>>

\* One parameter gets another value after the signature was made.
Tamper(key, value) ==
  /\ arg.kind = "tamper"
  /\ result.stage = "signed"
  /\ key \in DOMAIN result.params
  /\ value \in TamperValues(result.params, key)
  /\ result' = [result EXCEPT !.stage = "tampered", !.params[key] = value]
  /\ UNCHANGED <<arg, gateway>>

VerifyTampered ==
  /\ result.stage = "tampered"
  /\ result' = [result EXCEPT
       !.stage = "verified",
       !.valid = verifySignature(result.params,
                                 IF arg.garbled THEN BadBase64 ELSE result.sign,
                                 arg.publicKey)]
  /\ UNCHANGED <<arg, gateway>>

NextTamper ==
  \/ SignOriginal
  \/ \E key \in {KeyAppId, KeyCode, KeySignType},
        value \in {SomeCode, HanPath, LoneHigh, LoneLow, ValAppId, ValRSA2,
                   SomeCode \o PairText, LoneHigh \o PairText,
                   ValAppId \o PairText, ValRSA2 \o PairText} :
       Tamper(key, value)
  \/ VerifyTampered

SpecTamper == InitTamper /\ [][NextTamper]_vars

\* ---- normalizeUser of the six adapters (part_006, providers/qq.ts,
\* ---- providers/douyin.ts, providers/dingtalk.ts, part_004).

DouyinName == <<100, 111, 117, 121, 105, 110>>
DingtalkName == <<100, 105, 110, 103, 116, 97, 108, 107>>
AlipayName == <<97, 108, 105, 112, 97, 121>>

\* The fallback display names and the gender texts, as code units.
WechatUser == <<24494, 20449, 29992, 25143>>
QQUser == <<81, 81, 29992, 25143>>
DouyinUser == <<25238, 38899, 29992, 25143>>
DingtalkUser == <<38025, 38025, 29992, 25143>>
WeiboUser == <<24494, 21338, 29992, 25143>>
AlipayUserPrefix == <<25903, 20184, 23453, 29992, 25143>>
GenderMale == <<109, 97, 108, 101>>
GenderFemale == <<102, 101, 109, 97, 108, 101>>
GenderUnknown == <<117, 110, 107, 110, 111, 119, 110>>

\* raw.name of an object.
RawField(raw, name) == GetProp(raw, name).v

\* a || b
OrElse(a, b) == IF Truthy(a) THEN a ELSE b

\* v === m ? 'male' : v === f ? 'female' : other
GenderOf(v, m, f, other) ==
  IF v = m THEN JsStr(GenderMale)
  ELSE IF v = f THEN JsStr(GenderFemale)
  ELSE other

\* openid.slice(-4): a TypeError for undefined, null and for a value that
\* has no slice method.
SliceLastFour(v) ==
  IF v.t = "str"
  THEN Ok(SubSeq(v.s, IF Len(v.s) > 4 THEN Len(v.s) - 3 ELSE 1, Len(v.s)))
  ELSE Thrown

\* normalizeUser(raw) of the adapter of the name, for an object raw: the
\* NormalizedUser without its provider and raw members, or the throw.  A
\* member the adapter does not set reads as undefined.
normalizeUser(provider, raw) ==
  CASE provider = Wechat ->
         Ok([openid |-> RawField(raw, "openid"),
             nickname |-> OrElse(RawField(raw, "nickname"), JsStr(WechatUser)),
             avatar |-> RawField(raw, "headimgurl"),
             gender |-> GenderOf(RawField(raw, "sex"), JsNum(1), JsNum(2),
                                 JsStr(GenderUnknown))])
    [] provider = QQ ->
         Ok([openid |-> RawField(raw, "openid"),
             nickname |-> OrElse(RawField(raw, "nickname"), JsStr(QQUser)),
             avatar |-> OrElse(OrElse(RawField(raw, "figureurl_qq_2"),
                                      RawField(raw, "figureurl_qq_1")),
                               RawField(raw, "figureurl")),
             gender |-> GenderOf(RawField(raw, "gender"), JsStr(<<30007>>),
                                 JsStr(<<22899>>), JsStr(GenderUnknown))])
    [] provider = DouyinName ->
         Ok([openid |-> OrElse(RawField(raw, "open_id"), RawField(raw, "openid")),
             nickname |-> OrElse(RawField(raw, "nickname"), JsStr(DouyinUser)),
             avatar |-> RawField(raw, "avatar"),
             gender |-> GenderOf(RawField(raw, "gender"), JsNum(1), JsNum(2),
                                 JsStr(GenderUnknown))])
    [] provider = DingtalkName ->
         Ok([openid |-> OrElse(RawField(raw, "openId"), RawField(raw, "unionId")),
             nickname |-> OrElse(OrElse(RawField(raw, "nick"), RawField(raw, "name")),
                                 JsStr(DingtalkUser)),
             avatar |-> RawField(raw, "avatarUrl"),
             gender |-> Undefined])
    [] provider = Weibo ->
         Ok([openid |-> OrElse(RawField(raw, "id"), RawField(raw, "idstr")),
             nickname |-> OrElse(RawField(raw, "screen_name"), JsStr(WeiboUser)),
             avatar |-> OrElse(OrElse(RawField(raw, "avatar_large"),
                                      RawField(raw, "avatar_hd")),
                               RawField(raw, "profile_image_url")),
             gender |-> GenderOf(RawField(raw, "gender"), JsStr(<<109>>),
                                 JsStr(<<102>>), JsStr(GenderUnknown))])
    [] OTHER ->
         IF Truthy(RawField(raw, "nick_name"))
         THEN Ok([openid |-> RawField(raw, "user_id"),
                  nickname |-> RawField(raw, "nick_name"),
                  avatar |-> OrElse(RawField(raw, "avatar"), JsStr(Empty)),
                  gender |-> GenderOf(RawField(raw, "gender"), JsStr(<<77>>),
                                      JsStr(<<70>>), Undefined)])
         ELSE IF ~SliceLastFour(RawField(raw, "user_id")).ok THEN Thrown
         ELSE Ok([openid |-> RawField(raw, "user_id"),
                  nickname |-> JsStr(AlipayUserPrefix
                                     \o SliceLastFour(RawField(raw, "user_id")).v),
                  avatar |-> OrElse(RawField(raw, "avatar"), JsStr(Empty)),
                  gender |-> GenderOf(RawField(raw, "gender"), JsStr(<<77>>),
                                      JsStr(<<70>>), Undefined)])

\* The members of the user payload of each provider: the identifier, the
\* display name, the avatar, the gender and its two values.
PayloadShape(provider) ==
  CASE provider = Wechat ->
         [id |-> "openid", name |-> "nickname", avatar |-> "headimgurl",
          gender |-> "sex", male |-> JsNum(1), female |-> JsNum(2)]
    [] provider = QQ ->
         [id |-> "openid", name |-> "nickname", avatar |-> "figureurl_qq_1",
          gender |-> "gender", male |-> JsStr(<<30007>>), female |-> JsStr(<<22899>>)]
    [] provider = DouyinName ->
         [id |-> "open_id", name |-> "nickname", avatar |-> "avatar",
          gender |-> "gender", male |-> JsNum(1), female |-> JsNum(2)]
    [] provider = DingtalkName ->
         [id |-> "openId", name |-> "nick", avatar |-> "avatarUrl",
          gender |-> "gender", male |-> JsNum(1), female |-> JsNum(2)]
    [] provider = Weibo ->
         [id |-> "idstr", name |-> "screen_name", avatar |-> "profile_image_url",
          gender |-> "gender", male |-> JsStr(<<109>>), female |-> JsStr(<<102>>)]
    [] OTHER ->
         [id |-> "user_id", name |-> "nick_name", avatar |-> "avatar",
          gender |-> "gender", male |-> JsStr(<<77>>), female |-> JsStr(<<70>>)]

\* An object with the members whose value is given (undefined: left out).
Payload(shape, id, name, avatar, gender) ==
  LET given == {m \in {"id", "name", "avatar", "gender"} :
                  (CASE m = "id" -> id [] m = "name" -> name
                     [] m = "avatar" -> avatar [] OTHER -> gender) # Undefined}
  IN JsObj([k \in {shape[m] : m \in given} |->
              IF k = shape.id THEN id
              ELSE IF k = shape.name THEN name
              ELSE IF k = shape.avatar THEN avatar
              ELSE gender])

\* The user payloads of a provider: the identifier always there, each of
\* the display name, the avatar and the gender there or not.
RawPayloads(provider) ==
  LET shape == PayloadShape(provider)
  IN { Payload(shape, JsStr(<<111, 105, 100, 49>>), name, avatar, gender) :
         name \in {Undefined, JsStr(<<110, 105, 99, 107>>), JsStr(Empty)},
         avatar \in {Undefined, JsStr(<<104, 116, 116, 112>>)},
         gender \in {Undefined, shape.male, shape.female, JsNum(0)} }

AdapterNames == {Wechat, QQ, DouyinName, DingtalkName, Weibo, AlipayName}

InitNormalize ==
  /\ Quiet
  /\ ownerPlan = "free"
  /\ usage0 = [daily |-> 0, monthly |-> 0]
  /\ usageKV = <<>>
  /\ \E provider \in AdapterNames :
       arg \in [kind : {"normalize"}, provider : {provider},
                raw : RawPayloads(provider)]
  /\ result = NoRes

Normalize ==
  /\ arg.kind = "normalize"
  /\ result.stage = "none"
  /\ result' = [stage |-> "normalized", out |-> normalizeUser(arg.provider, arg.raw)]
  /\ UNCHANGED <<arg, gateway>>

NextNormalize == Normalize

SpecNormalize == InitNormalize /\ [][NextNormalize]_vars

\* ---- exchangeCodeForToken and getUserInfo of the six adapters.

\* A text value of a response body.
SomeText == JsStr(<<116, 111, 107>>)

\* What an outbound call is answered with: "success"; "status", a
\* non-success HTTP status with the provider's error body; "embedded", a
\* success status with the provider's error body; "unreachable", no answer
\* (fetchWithTimeout throws).
ResponseKinds == {"success", "status", "embedded", "unreachable"}

\* The body a provider sends with a success, for the calls of the adapters:
\* "token", "me" (the open-id lookup of QQ) and "info".
SuccessBody(provider, call) ==
  CASE provider = Wechat /\ call = "token" ->
         JsObj([access_token |-> SomeText, openid |-> SomeText])
    [] provider = Wechat -> JsObj([openid |-> SomeText, nickname |-> SomeText])
    [] provider = QQ /\ call = "token" -> JsObj([access_token |-> SomeText])
    [] provider = QQ /\ call = "me" -> JsObj([openid |-> SomeText])
    [] provider = QQ -> JsObj([ret |-> JsNum(0), nickname |-> SomeText])
    [] provider = DouyinName /\ call = "token" ->
         JsObj([data |-> JsObj([error_code |-> JsNum(0), access_token |-> SomeText,
                                open_id |-> SomeText])])
    [] provider = DouyinName ->
         JsObj([data |-> JsObj([error_code |-> JsNum(0), open_id |-> SomeText])])
    [] provider = DingtalkName /\ call = "token" -> JsObj([accessToken |-> SomeText])
    [] provider = DingtalkName -> JsObj([openId |-> SomeText, nick |-> SomeText])
    [] provider = Weibo /\ call = "token" ->
         JsObj([access_token |-> SomeText, uid |-> SomeText])
    [] provider = Weibo -> JsObj([idstr |-> SomeText, screen_name |-> SomeText])
    [] call = "token" ->
         JsObj([alipay_system_oauth_token_response |->
                  JsObj([access_token |-> SomeText, user_id |-> SomeText])])
    [] OTHER ->
         JsObj([alipay_user_info_share_response |-> JsObj([user_id |-> SomeText])])

\* The body a provider sends with an error.
ErrorBody(provider, call) ==
  CASE provider = Wechat -> JsObj([errcode |-> JsNum(40029), errmsg |-> SomeText])
    [] provider = QQ /\ call = "info" -> JsObj([ret |-> JsNum(-1), msg |-> SomeText])
    [] provider = QQ -> JsObj([error |-> JsNum(100016), error_description |-> SomeText])
    [] provider = DouyinName ->
         JsObj([data |-> JsObj([error_code |-> JsNum(10008), description |-> SomeText])])
    [] provider = DingtalkName -> JsObj([code |-> SomeText, message |-> SomeText])
    [] provider = Weibo ->
         JsObj([error |-> SomeText, error_description |-> SomeText])
    [] OTHER -> JsObj([error_response |-> JsObj([msg |-> SomeText])])

\* The Response of fetchWithTimeout for an answer of the kind: its ok flag
\* and the value of response.json().
ResponseOf(provider, call, kind) ==
  [ok |-> kind \in {"success", "embedded"},
   body |-> IF kind = "success" THEN SuccessBody(provider, call)
            ELSE ErrorBody(provider, call)]

\* The test each adapter makes on the body of an answer: TRUE when it
\* throws.  The open-id lookup of the QQ adapter and getUserInfo of the
\* DingTalk adapter make none.
BodyRejected(provider, call, data) ==
  CASE provider = Wechat -> Truthy(RawField(data, "errcode"))
    [] provider = QQ /\ call = "token" -> Truthy(RawField(data, "error"))
    [] provider = QQ /\ call = "me" -> FALSE
    [] provider = QQ -> RawField(data, "ret") # JsNum(0)
    [] provider = DouyinName ->
         RawField(RawField(data, "data"), "error_code") # JsNum(0)
    [] provider = DingtalkName /\ call = "token" ->
         ~Truthy(RawField(data, "accessToken"))
    [] provider = DingtalkName -> FALSE
    [] provider = Weibo -> Truthy(RawField(data, "error"))
    [] OTHER -> Truthy(RawField(data, "error_response"))

\* The check of response.ok each adapter makes after a call: none after
\* the open-id lookup of the QQ adapter.
StatusChecked(provider, call) == ~(provider = QQ /\ call = "me")

\* A call as the adapter sees it: the body, or the throw.
CallOutcome(provider, call, kind) ==
  IF kind = "unreachable" THEN Thrown
  ELSE IF StatusChecked(provider, call) /\ ~ResponseOf(provider, call, kind).ok
    THEN Thrown
  ELSE IF BodyRejected(provider, call, ResponseOf(provider, call, kind).body)
    THEN Thrown
  ELSE Ok(ResponseOf(provider, call, kind).body)

\* exchangeCodeForToken(code, config, redirect_uri) of the adapter, with
\* the answers to its token call and (QQ) to its open-id lookup: the
\* TokenResponse (access_token, openid), or the throw.
exchangeCodeForToken(provider, tokenKind, meKind) ==
  LET data == CallOutcome(provider, "token", tokenKind)
      me == CallOutcome(provider, "me", meKind)
  IN IF ~data.ok THEN Thrown
     ELSE CASE provider = QQ ->
                 IF ~me.ok THEN Thrown
                 ELSE Ok([access_token |-> RawField(data.v, "access_token"),
                          openid |-> RawField(me.v, "openid")])
            [] provider = Wechat ->
                 Ok([access_token |-> RawField(data.v, "access_token"),
                     openid |-> RawField(data.v, "openid")])
            [] provider = DouyinName ->
                 Ok([access_token |-> RawField(RawField(data.v, "data"), "access_token"),
                     openid |-> RawField(RawField(data.v, "data"), "open_id")])
            [] provider = DingtalkName ->
                 Ok([access_token |-> RawField(data.v, "accessToken"),
                     openid |-> Undefined])
            [] provider = Weibo ->
                 Ok([access_token |-> RawField(data.v, "access_token"),
                     openid |-> RawField(data.v, "uid")])
            [] OTHER ->
                 Ok([access_token |->
                       RawField(RawField(data.v, "alipay_system_oauth_token_response"),
                                "access_token"),
                     openid |-> Undefined])

\* getUserInfo(tokenResponse, config) of the adapter with the answer to
\* its call: the raw payload, or the throw.
getUserInfo(provider, infoKind) ==
  LET data == CallOutcome(provider, "info", infoKind)
  IN IF ~data.ok THEN Thrown
     ELSE CASE provider = DouyinName -> Ok(RawField(data.v, "data"))
            [] provider = AlipayName ->
                 Ok(RawField(data.v, "alipay_user_info_share_response"))
            [] OTHER -> Ok(data.v)

\* The answers to the calls of one function of one adapter: "none" for a
\* call the function does not have.
AdapterArgs ==
  { [kind |-> "adapter", provider |-> p, fn |-> "exchange", first |-> a, second |-> b] :
      p \in AdapterNames \ {QQ}, a \in ResponseKinds, b \in {"none"} }
  \cup
  { [kind |-> "adapter", provider |-> QQ, fn |-> "exchange", first |-> a, second |-> b] :
      a \in ResponseKinds, b \in ResponseKinds }
  \cup
  { [kind |-> "adapter", provider |-> p, fn |-> "userinfo", first |-> a, second |-> b] :
      p \in AdapterNames, a \in ResponseKinds, b \in {"none"} }

InitAdapter ==
  /\ Quiet
  /\ ownerPlan = "free"
  /\ usage0 = [daily |-> 0, monthly |-> 0]
  /\ usageKV = <<>>
  /\ arg \in AdapterArgs
  /\ result = NoRes

ExchangeCode ==
  /\ arg.kind = "adapter" /\ arg.fn = "exchange"
  /\ result.stage = "none"
  /\ result' = [stage |-> "called",
                out |-> exchangeCodeForToken(arg.provider, arg.first, arg.second)]
  /\ UNCHANGED <<arg, gateway>>

GetUserInfo ==
  /\ arg.kind = "adapter" /\ arg.fn = "userinfo"
  /\ result.stage = "none"
  /\ result' = [stage |-> "called", out |-> getUserInfo(arg.provider, arg.first)]
  /\ UNCHANGED <<arg, gateway>>

NextAdapter == ExchangeCode \/ GetUserInfo

SpecAdapter == InitAdapter /\ [][NextAdapter]_vars

\* ---- The admin plane: handleUpdateProject, handleDeleteProject,
\* ---- handleAddProvider, handleUpdateProvider, beside a getAppConfig call.

\* What the login and callback flows own.
traffic == <<now, usageKV, planCache, ownerPlan, pc, loc, trace, last, issued,
             accepted, recorded, overlap, usage0>>

AdminOps == {"update_project", "delete_project", "add_provider", "update_provider"}

NewBaseUrl == "https://new.example"

\* The function without the key.
Without(f, key) == [k \in DOMAIN f \ {key} |-> f[k]]

\* createErrorResponse of the admin handlers: the code and the status.
AdminError(error, statusCode) == [status |-> statusCode, error |-> error]

\* The step of a handler after its write was answered with a success status
\* that leaves out invalidateAppCache.
SkipInvalidate(op) == "respond"

\* The step of a handler after its write was answered with a success
\* status: await invalidateAppCache(env, projectId), in all four.
AfterWrite(op) == "invalidate"

\* The master store after the write of the operation.  PATCH of a project
\* sets the fields of the body; DELETE of a project removes it and, by the
\* cascade, its credentials; POST of a credential adds a row with
\* enabled: body.enabled !== false; PATCH of a credential changes the rows
\* of the project and provider, none when there is none.
WriteMaster(store, op, project, provider, value) ==
  CASE op = "update_project" ->
         [store EXCEPT !.projects[project].frontend_base_url = NewBaseUrl]
    [] op = "delete_project" ->
         [projects |-> Without(store.projects, project),
          credentials |-> Without(store.credentials, project)]
    [] op = "add_provider" ->
         [store EXCEPT !.credentials[project] =
            Append(@, [provider |-> provider, enabled |-> value])]
    [] OTHER ->
         [store EXCEPT !.credentials[project] =
            SubSeq([i \in 1..Len(@) |->
                      IF @[i].provider = provider
                      THEN [@[i] EXCEPT !.enabled = value] ELSE @[i]],
                   1, Len(@))]

\* The oauth_credentials table has a row for the project and provider.
Configured(store, project, provider) ==
  \E i \in 1..Len(store.credentials[project]) :
     store.credentials[project][i].provider = provider

\* A handler from its first line to its write: the Authorization header
\* and verifyDeveloperToken (auth: "none", or the developer), the ownership
\* query, request.json() and the checks of the body ("ok", "empty" with no
\* usable field, "throw" when it is no JSON).  handleDeleteProject reads no
\* body.
AdminStart(op, project, provider, value, auth, body) ==
  /\ admin.pc = "idle"
  /\ started < MaxStarts
  /\ started' = started + 1
  /\ LET req == [NoAdmin EXCEPT !.op = op, !.project = project,
                                !.provider = provider, !.value = value,
                                !.reader = admin.reader]
         owned == /\ project \in DOMAIN master.projects
                  /\ master.projects[project].owner_id = auth
     IN admin' =
          IF auth = "none"
            THEN [req EXCEPT !.resp = AdminError("UNAUTHORIZED", 401)]
          ELSE IF ~owned
            THEN [req EXCEPT !.trace = <<"auth">>,
                             !.resp = AdminError("NOT_FOUND", 404)]
          ELSE IF op # "delete_project" /\ body = "throw"
            THEN [req EXCEPT !.trace = <<"auth", "owned">>,
                             !.resp = AdminError("INTERNAL_ERROR", 500)]
          ELSE IF op # "delete_project" /\ body = "empty"
            THEN [req EXCEPT !.trace = <<"auth", "owned">>,
                             !.resp = AdminError(IF op = "add_provider"
                                                 THEN "MISSING_FIELD"
                                                 ELSE "NOTHING_TO_UPDATE", 400)]
          ELSE [req EXCEPT !.pc = "write", !.trace = <<"auth", "owned">>]
  /\ UNCHANGED <<arg, result, master, appCache, traffic>>

\* The write to the master store and the check of its status.  Outcomes:
\* "ok" a success status; "down" a non-success status; "throw" the fetch
\* throwing.  A POST of a credential the project already has is answered by
\* the unique constraint.
AdminWrite(outcome) ==
  /\ admin.pc = "write"
  /\ LET op == admin.op
         dup == op = "add_provider" /\ Configured(master, admin.project, admin.provider)
     IN IF outcome = "throw"
          THEN /\ admin' = [admin EXCEPT !.pc = "idle",
                                         !.resp = AdminError("INTERNAL_ERROR", 500)]
               /\ master' = master
        ELSE IF outcome = "ok" /\ dup
          THEN /\ admin' = [admin EXCEPT !.pc = "idle",
                                         !.resp = AdminError("DUPLICATE_PROVIDER", 409)]
               /\ master' = master
        ELSE IF outcome = "down"
          THEN /\ admin' = [admin EXCEPT !.pc = "idle",
                              !.resp = AdminError(IF op = "delete_project"
                                                  THEN "INTERNAL_ERROR"
                                                  ELSE "DATABASE_ERROR", 500)]
               /\ master' = master
        ELSE /\ master' = WriteMaster(master, op, admin.project, admin.provider,
                                      admin.value)
             /\ admin' = [admin EXCEPT !.pc = AfterWrite(op),
                                       !.trace = Append(@, "write")]
  /\ UNCHANGED <<arg, result, appCache, started, traffic>>

\* invalidateAppCache(env, projectId): APP_CACHE.delete of the entry, an
\* exception of it caught and logged.
AdminInvalidate(cacheDelete) ==
  /\ admin.pc = "invalidate"
  /\ appCache' = IF cacheDelete = "ok" THEN Without(appCache, admin.project)
                 ELSE appCache
  /\ admin' = [admin EXCEPT !.pc = "respond",
                            !.trace = Append(@, "invalidate"),
                            !.evicted = cacheDelete = "ok" /\
                                        admin.project \in DOMAIN appCache]
  /\ UNCHANGED <<arg, result, master, started, traffic>>

\* The rest of the handler: the body of the write's response is parsed
\* (not by handleDeleteProject), an exception of that caught by the outer
\* catch; the success response, 201 for a provider added.
AdminRespond(parse) ==
  /\ admin.pc = "respond"
  /\ admin' =
       IF admin.op # "delete_project" /\ parse = "throw"
       THEN [admin EXCEPT !.pc = "idle", !.resp = AdminError("INTERNAL_ERROR", 500)]
       ELSE [admin EXCEPT !.pc = "idle", !.trace = Append(@, "respond"),
                          !.resp = [status |-> IF admin.op = "add_provider"
                                               THEN 201 ELSE 200,
                                    error |-> NoValue]]
  /\ UNCHANGED <<arg, result, master, appCache, started, traffic>>

\* getAppConfig of a login or callback, lines 181-242: the read of the
\* cache and, on a miss, the reads of the master store.
ConfigFetch(app_id) ==
  /\ admin.reader.pc = "idle"
  /\ started < MaxStarts
  /\ started' = started + 1
  /\ admin' = [admin EXCEPT !.reader =
       IF getCachedAppConfig(appCache, app_id, "ok", now).found
         THEN [pc |-> "idle", app_id |-> app_id,
               cfg |-> getCachedAppConfig(appCache, app_id, "ok", now)]
       ELSE IF app_id \notin DOMAIN master.projects
         THEN [pc |-> "idle", app_id |-> app_id, cfg |-> NoCfg]
       ELSE [pc |-> "store", app_id |-> app_id,
             cfg |-> BuildAppConfigFrom(master, app_id)]]
  /\ UNCHANGED <<arg, result, master, appCache, traffic>>

\* getAppConfig, lines 244-247: setCachedAppConfig and the return.
ConfigStore ==
  /\ admin.reader.pc = "store"
  /\ appCache' = setCachedAppConfig(appCache, admin.reader.app_id,
                                    admin.reader.cfg, "ok", now)
  /\ admin' = [admin EXCEPT !.reader.pc = "idle"]
  /\ UNCHANGED <<arg, result, master, started, traffic>>

\* APP_CACHE answers, or throws.
CacheOutcomes == {"ok", "throw"}

Developers == {"none", "dev1", "dev2"}

BodyKinds == {"ok", "empty", "throw"}

WriteOutcomes == {"ok", "down", "throw"}

\* The provider and the enabled flag an operation on a provider names; a
\* project operation names none.
ProviderInputs(op) ==
  IF op = "add_provider" THEN {Weibo, Wechat} \X {TRUE}
  ELSE IF op = "update_provider" THEN {QQ} \X {TRUE}
  ELSE {<<Empty, FALSE>>}

NextAdmin ==
  \/ \E op \in AdminOps, project \in {App1, Ghost}, auth \in Developers,
        body \in BodyKinds :
       \E pv \in ProviderInputs(op) :
         AdminStart(op, project, pv[1], pv[2], auth, body)
  \/ \E o \in WriteOutcomes : AdminWrite(o)
  \/ \E o \in CacheOutcomes : AdminInvalidate(o)
  \/ \E o \in CacheOutcomes : AdminRespond(o)
  \/ \E a \in {App1, Ghost} : ConfigFetch(a)
  \/ ConfigStore

SpecAdmin == InitFree /\ [][NextAdmin]_vars

\* A configuration cached before the project moved to its present address.
OldCfg ==
  [found |-> TRUE, developer_id |-> "dev1",
   frontend_base_url |-> "https://old.example",
   providers |-> << [provider |-> Wechat, enabled |-> TRUE] >>]

\* The cache before the call: nothing, an entry still readable, an entry
\* that has expired, for either tenant.
StartCaches ==
  {<<>>} \cup
  { (a :> [config |-> OldCfg, exp |-> e]) :
      a \in {App1, Ghost}, e \in {StartNow + 1, StartNow} }

StoreOutcomes == {"ok", "down", "nocreds", "throw"}

\* getAppConfig on its own: a tenant that exists and one that does not,
\* every start of the cache, every outcome of the three calls.
InitConfig ==
  /\ Quiet
  /\ ownerPlan = "free"
  /\ usage0 = [daily |-> 0, monthly |-> 0]
  /\ usageKV = StartStore(usage0)
  /\ arg \in [kind : {"config"}, app_id : {App1, Ghost}, cache : StartCaches,
              cacheRead : CacheOutcomes, store : StoreOutcomes,
              cacheWrite : CacheOutcomes]
  /\ result = NoRes

GetAppConfig ==
  /\ arg.kind = "config"
  /\ result.stage = "none"
  /\ result' = [stage |-> "resolved",
                out |-> getAppConfigVia(master, arg.app_id, arg.cacheRead,
                                        arg.store, arg.cacheWrite, arg.cache, now)]
  /\ UNCHANGED <<arg, gateway>>

NextConfig == GetAppConfig

SpecConfig == InitConfig /\ [][NextConfig]_vars

\* Field values of state tokens: plain, with a quote, with a backslash, with
\* a control character, Latin-1, and outside Latin-1.
CodecApps == {App1, <<97, 34, 98>>, <<233>>}
CodecProviders == {Wechat, <<92>>}
CodecRedirects == {HomePath, HanPath, <<47, 10>>}
CodecNonces == {generateNonce(RandomBytes(1)), <<48>>}

\* Ages at which a token is decoded, milliseconds.
CodecAges == {0, 599999, 600000, 600001, 1200000}

IssueArgs ==
  { [kind |-> "issue", cat |-> "token", app_id |-> a, provider |-> p, redirect |-> d,
     nonce |-> n, t |-> StartNow, at |-> StartNow + g, s |-> Empty] :
    a \in CodecApps, p \in CodecProviders, d \in CodecRedirects, n \in CodecNonces,
    g \in CodecAges }

\* The members of a complete state object, as JSON texts.
StateMembers ==
  << <<K_app_id, JSONQuote(App1)>>, <<K_provider, JSONQuote(Wechat)>>,
     <<K_redirect, JSONQuote(HomePath)>>, <<K_nonce, JSONQuote(<<48>>)>>,
     <<K_timestamp, JSONNumber(StartNow)>> >>

RECURSIVE JoinMembers(_)
JoinMembers(ms) ==
  IF Len(ms) = 0 THEN <<>>
  ELSE JSONQuote(ms[1][1]) \o <<58>> \o ms[1][2]
       \o (IF Len(ms) = 1 THEN <<>> ELSE <<44>> \o JoinMembers(Tail(ms)))

\* The JSON text of the state object without the member named key.
ObjectWithout(key) ==
  <<123>> \o JoinMembers(SelectSeq(StateMembers, LAMBDA m : m[1] # key)) \o <<125>>

\* Texts that are no state token, by what is wrong with them.
Malformed ==
  [ not_base64 |-> GarbageState,
    bad_length |-> <<65>>,
    empty_text |-> Empty,
    not_json |-> btoa(<<123, 111, 111, 112, 115>>).v,
    json_null |-> btoa(<<110, 117, 108, 108>>).v,
    json_number |-> btoa(<<52, 50>>).v,
    json_string |-> btoa(<<34, 97, 98, 99, 34>>).v,
    json_array |-> btoa(<<91, 49, 93>>).v,
    json_true |-> btoa(<<116, 114, 117, 101>>).v,
    empty_object |-> btoa(<<123, 125>>).v,
    no_app_id |-> btoa(ObjectWithout(K_app_id)).v,
    no_provider |-> btoa(ObjectWithout(K_provider)).v,
    no_redirect |-> btoa(ObjectWithout(K_redirect)).v,
    no_nonce |-> btoa(ObjectWithout(K_nonce)).v,
    no_timestamp |-> btoa(ObjectWithout(K_timestamp)).v ]

TextArgs ==
  { [kind |-> "text", cat |-> c, app_id |-> Empty, provider |-> Empty,
     redirect |-> Empty, nonce |-> Empty, t |-> 0, at |-> StartNow + g,
     s |-> Malformed[c]] : c \in DOMAIN Malformed, g \in {0, 600001} }

\* encodeState and decodeState on their own.
InitCodec ==
  /\ Quiet
  /\ ownerPlan = "free"
  /\ usage0 = [daily |-> 0, monthly |-> 0]
  /\ usageKV = <<>>
  /\ arg \in IssueArgs \cup TextArgs
  /\ result = NoRes

Encode ==
  /\ arg.kind = "issue"
  /\ result.stage = "none"
  /\ result' = [stage |-> "encoded",
                token |-> encodeState(arg.app_id, arg.provider, arg.redirect,
                                      arg.nonce, arg.t),
                out |-> Thrown]
  /\ UNCHANGED <<arg, gateway>>

Decode ==
  /\ result.stage = "encoded"
  /\ result.token.ok
  /\ result' = [result EXCEPT !.stage = "decoded",
                              !.out = decodeStateCall(result.token.v, arg.at)]
  /\ UNCHANGED <<arg, gateway>>

DecodeText ==
  /\ arg.kind = "text"
  /\ result.stage = "none"
  /\ result' = [stage |-> "decoded", token |-> Ok(arg.s),
                out |-> decodeStateCall(arg.s, arg.at)]
  /\ UNCHANGED <<arg, gateway>>

NextCodec == Encode \/ Decode \/ DecodeText

SpecCodec == InitCodec /\ [][NextCodec]_vars

\* Usage windows: two owners recording logins while the calendar moves from
\* 2026-01-11 over 2026-11-01 and 2026-11-30 to 2026-12-01 (day numbers
\* since 1970-01-01), with the calendar month each of these days lies in.
CalendarDays == <<20464, 20758, 20787, 20788>>

CalendarMonth == (20464 :> "2026-01") @@ (20758 :> "2026-11") @@ (20787 :> "2026-11")
                 @@ (20788 :> "2026-12")

Owners == {"dev1", "dev2"}

\* Logins recorded in all.
MaxRecords == 3

NoIncrement == [busy |-> FALSE, day |-> 0, dkey |-> NoKey, mkey |-> NoKey,
                newDaily |-> 0, newMonthly |-> 0]

NoRead == [owner |-> "", day |-> 0, daily |-> 0, monthly |-> 0,
           dayCount |-> <<>>, monthCount |-> <<>>]

InitCalendar ==
  /\ Quiet
  /\ ownerPlan = "free"
  /\ usage0 = [daily |-> 0, monthly |-> 0]
  /\ usageKV = <<>>
  /\ arg = [at |-> 1, started |-> 0, inc |-> [o \in Owners |-> NoIncrement]]
  /\ result = [store |-> <<>>, read |-> NoRead,
               dayCount |-> [o \in Owners |-> <<>>],
               monthCount |-> [o \in Owners |-> <<>>]]

Today == CalendarDays[arg.at]

\* incrementUsage, lines 150-161: the keys of the current day and month, the
\* usage read under them, the new values.
RecordStart(o) ==
  /\ ~arg.inc[o].busy
  /\ arg.started < MaxRecords
  /\ LET stats == getUsageStatsOn(result.store, o, CivilFromDays(Today))
     IN arg' = [arg EXCEPT !.started = @ + 1,
                           !.inc[o] = [busy |-> TRUE, day |-> Today,
                                       dkey |-> DailyKeyOn(o, CivilFromDays(Today)),
                                       mkey |-> MonthlyKeyOn(o, CivilFromDays(Today)),
                                       newDaily |-> NewDaily(stats),
                                       newMonthly |-> NewMonthly(stats)]]
  /\ UNCHANGED <<result, gateway>>

\* incrementUsage, lines 170-173: both puts land, on the day they were
\* issued or on a later one.  dayCount and monthCount note which day and
\* which month the values were written for.
RecordPut(o) ==
  /\ arg.inc[o].busy
  /\ arg' = [arg EXCEPT !.inc[o] = NoIncrement]
  /\ result' = [result EXCEPT
                  !.store = KVPut(KVPut(@, arg.inc[o].dkey, NumToStr(arg.inc[o].newDaily)),
                                  arg.inc[o].mkey, NumToStr(arg.inc[o].newMonthly)),
                  !.dayCount[o] = (arg.inc[o].day :> arg.inc[o].newDaily) @@ @,
                  !.monthCount[o] = (CalendarMonth[arg.inc[o].day] :> arg.inc[o].newMonthly) @@ @]
  /\ UNCHANGED gateway

\* The calendar reaches the next of the days.
NextDay ==
  /\ arg.at < Len(CalendarDays)
  /\ arg' = [arg EXCEPT !.at = @ + 1]
  /\ UNCHANGED <<result, gateway>>

\* getUsageStats for an owner today, with what has been written for that
\* owner so far.
GetUsage(o) ==
  /\ result' = [result EXCEPT
                  !.read = [owner |-> o, day |-> Today,
                            daily |-> getUsageStatsOn(result.store, o, CivilFromDays(Today)).daily,
                            monthly |-> getUsageStatsOn(result.store, o, CivilFromDays(Today)).monthly,
                            dayCount |-> result.dayCount[o],
                            monthCount |-> result.monthCount[o]]]
  /\ UNCHANGED <<arg, gateway>>

NextCalendar ==
  \/ \E o \in Owners : RecordStart(o)
  \/ \E o \in Owners : RecordPut(o)
  \/ NextDay
  \/ \E o \in Owners : GetUsage(o)

SpecCalendar == InitCalendar /\ [][NextCalendar]_vars

\* The entry point: fetch(request, env, ctx) of the worker.  A response is
\* [status, json, headers]: its status, whether its body is JSON text, its
\* headers by name.
CorsOrigin == "Access-Control-Allow-Origin"
CorsMethods == "Access-Control-Allow-Methods"
CorsHeaders == "Access-Control-Allow-Headers"
CorsMaxAge == "Access-Control-Max-Age"

\* corsHeaders of fetch (lines 25-30); CORS_HEADERS of config.ts holds the
\* same four.
corsHeaders ==
  (CorsOrigin :> "*") @@ (CorsMethods :> "GET, POST, PUT, DELETE, OPTIONS")
  @@ (CorsHeaders :> "Content-Type, Authorization") @@ (CorsMaxAge :> "86400")

JsonType == ("Content-Type" :> "application/json")

\* The headers createErrorResponse gives its response (error.ts 31-34), the
\* same two the 429 of handleLogin carries (part_007 58-61).
ErrorHeaders == JsonType @@ (CorsOrigin :> "*")

\* new Response(JSON.stringify(...), {headers: {'Content-Type': ..., ...cors}}).
JsonWithCors(statusCode) ==
  [status |-> statusCode, json |-> TRUE, headers |-> JsonType @@ corsHeaders]

ErrorJson(statusCode) == [status |-> statusCode, json |-> TRUE, headers |-> ErrorHeaders]

Redirect302 == [status |-> 302, json |-> FALSE, headers |-> ("Location" :> "url")]

\* Lines 69-77 and 84-92: a copy of the response whose headers are those of
\* the handler's response with every entry of corsHeaders set.
WithCors(response) == [response EXCEPT !.headers = corsHeaders @@ @]

\* What handleLogin and handleCallback return for each way they end.
HandlerResponse(pathname, ending) ==
  CASE ending = "success" -> Redirect302
    [] ending = "denied" /\ pathname = <<"auth", "login">> -> ErrorJson(429)
    [] ending = "redirected_error" /\ pathname = <<"auth", "callback">> -> Redirect302
    [] OTHER -> ErrorJson(400)

\* What an admin handler returns: createErrorResponse, or the JSON of its
\* success with CORS_HEADERS.
AdminResponse(ending) == IF ending = "success" THEN JsonWithCors(200) ELSE ErrorJson(400)

\* The admin routes of lines 138-169, in their order: the handler that
\* takes the request, "none" when no route does.
AdminRoute(method, pathname) ==
  LET underProjects == Len(pathname) >= 3 /\ SubSeq(pathname, 1, 2) = <<"admin", "projects">>
      providers == Len(pathname) = 4 /\ underProjects /\ pathname[4] = "providers"
  IN CASE pathname = <<"admin", "projects">> /\ method = "GET" -> "handleGetProjects"
       [] pathname = <<"admin", "projects">> /\ method = "POST" -> "handleCreateProject"
       [] underProjects /\ method = "PUT" -> "handleUpdateProject"
       [] underProjects /\ method = "DELETE" -> "handleDeleteProject"
       [] providers /\ method = "GET" -> "handleGetProviders"
       [] providers /\ method = "POST" -> "handleAddProvider"
       [] OTHER -> "none"

\* fetch(request, env, ctx), lines 20-183, for the method and the path of
\* the request (its segments) and the way the work behind the route ends:
\* "success", "denied", "error", "redirected_error", or "throw" for an
\* exception that reaches the catch of fetch.
fetch(method, pathname, ending) ==
  IF method = "OPTIONS"
    THEN [status |-> 204, json |-> FALSE, headers |-> corsHeaders]
  ELSE IF pathname = <<>> \/ pathname = <<"health">>
    THEN JsonWithCors(200)
  ELSE IF pathname = <<"auth", "login">> \/ pathname = <<"auth", "callback">>
    THEN WithCors(HandlerResponse(pathname, ending))
  ELSE IF pathname = <<"usage", "stats">>
    THEN (CASE ending = "success" -> JsonWithCors(200)
            [] ending = "throw" -> ErrorJson(500)
            [] OTHER -> ErrorJson(400))
  ELSE IF AdminRoute(method, pathname) # "none"
    THEN AdminResponse(ending)
  ELSE ErrorJson(404)

Methods == {"GET", "POST", "PUT", "DELETE", "OPTIONS"}

Pathnames ==
  { <<>>, <<"health">>, <<"auth", "login">>, <<"auth", "callback">>, <<"usage", "stats">>,
    <<"admin", "projects">>, <<"admin", "projects", "p1">>,
    <<"admin", "projects", "p1", "providers">>, <<"nope">> }

Endings == {"success", "denied", "error", "redirected_error", "throw"}

InitEntry ==
  /\ Quiet
  /\ ownerPlan = "free"
  /\ usage0 = [daily |-> 0, monthly |-> 0]
  /\ usageKV = <<>>
  /\ arg \in [method : Methods, pathname : Pathnames, ending : Endings]
  /\ result = NoRes

Fetch ==
  /\ result = NoRes
  /\ result' = [stage |-> "answered",
                response |-> fetch(arg.method, arg.pathname, arg.ending)]
  /\ UNCHANGED <<arg, gateway>>

NextEntry == Fetch

SpecEntry == InitEntry /\ [][NextEntry]_vars

\* The callback URL.  A request URL as the text holds it: scheme, host,
\* port (0 when none is written), the segments of its path, its query.
DefaultPort(scheme) == IF scheme = "https" THEN 443 ELSE 80

\* new URL(text): the host in lower case, a port that is the default of the
\* scheme left out.
ParseURL(url) ==
  [url EXCEPT !.host = ToLowerCase(@),
              !.port = IF @ = DefaultPort(url.scheme) THEN 0 ELSE @]

\* new URL(request.url).toString(): the URL of the request itself.
OwnURL(requestUrl) == ParseURL(requestUrl)

\* new URL('/auth/callback', request.url).toString() of handleLogin (line
\* 106) and of handleCallback (line 188): scheme, host and port of the
\* base, the given path, no query.
CallbackURL(requestUrl) ==
  [ParseURL(requestUrl) EXCEPT !.pathname = <<"auth", "callback">>, !.search = ""]

\* The origin of a URL: scheme, host and the port it connects to.
Origin(url) ==
  <<url.scheme, ToLowerCase(url.host),
    IF url.port = 0 THEN DefaultPort(url.scheme) ELSE url.port>>

\* Hosts gw, GW and gx; the requests fetch routes to the two handlers.
RequestHosts == {<<103, 119>>, <<71, 87>>, <<103, 120>>}

RequestUrls(pathname) ==
  [scheme : {"http", "https"}, host : RequestHosts, port : {0, 80, 443, 8787},
   pathname : {pathname}, search : {"", "?app_id=app1&provider=wechat&redirect=/home",
                                    "?code=c0de&state=abc"}]

InitUrl ==
  /\ Quiet
  /\ ownerPlan = "free"
  /\ usage0 = [daily |-> 0, monthly |-> 0]
  /\ usageKV = <<>>
  /\ arg \in [login : RequestUrls(<<"auth", "login">>),
              callback : RequestUrls(<<"auth", "callback">>)]
  /\ result = [stage |-> "none", authorized |-> arg.login, exchanged |-> arg.callback]

\* handleLogin, lines 105-109: the callback URL given to buildAuthURL.
LoginUrl ==
  /\ result.stage = "none"
  /\ result' = [result EXCEPT !.stage = "login", !.authorized = CallbackURL(arg.login)]
  /\ UNCHANGED <<arg, gateway>>

\* handleCallback, lines 187-192: the callback URL given to
\* exchangeCodeForToken.
CallbackUrl ==
  /\ result.stage = "login"
  /\ result' = [result EXCEPT !.stage = "callback", !.exchanged = CallbackURL(arg.callback)]
  /\ UNCHANGED <<arg, gateway>>

NextUrl == LoginUrl \/ CallbackUrl

SpecUrl == InitUrl /\ [][NextUrl]_vars

\* Expirations.  An instant is [day, ms]: the day number since 1970-01-01
\* and the milliseconds into that UTC day.
Before(a, b) == a.day < b.day \/ (a.day = b.day /\ a.ms < b.ms)

\* The instant a whole number of seconds after an instant.
PlusSeconds(t, seconds) ==
  LET total == t.ms + (seconds % 86400) * 1000
  IN [day |-> t.day + seconds \div 86400 + total \div DayMs, ms |-> total % DayMs]

\* Date.UTC(y, m, 1) / 86400000 for a month m in 1..12: the day number of
\* the first day of the month.
DaysFromCivil(y, m) ==
  LET yy == IF m <= 2 THEN y - 1 ELSE y
      era == yy \div 400
      yoe == yy - era * 400
      mp == IF m > 2 THEN m - 3 ELSE m + 9
      doy == (153 * mp + 2) \div 5
      doe == yoe * 365 + yoe \div 4 - yoe \div 100 + doy
  IN era * 146097 + doe - 719468

\* endOfDay of incrementUsage (lines 163-164): setUTCHours(23, 59, 59, 999)
\* on a copy of now.
EndOfDay(t) == [day |-> t.day, ms |-> DayMs - 1]

\* endOfMonth of incrementUsage (line 167): new Date(year, month + 1, 0, 23,
\* 59, 59, 999), day 0 of the next month being the last day of this one; the
\* runtime's local time is UTC.
EndOfMonth(t) ==
  LET date == CivilFromDays(t.day)
      next == IF date.m = 12 THEN DaysFromCivil(date.y + 1, 1)
              ELSE DaysFromCivil(date.y, date.m + 1)
  IN [day |-> next - 1, ms |-> DayMs - 1]

\* Math.floor((end.getTime() - now.getTime()) / 1000) for an end at
\* 23:59:59.999 of a day not before today: the whole days between are whole
\* seconds, so they are counted apart from the rest of today.
WholeSecondsUntil(end, t) == (end.day - t.day) * 86400 + (end.ms - t.ms) \div 1000

dailyTTL(t) == WholeSecondsUntil(EndOfDay(t), t)

monthlyTTL(t) == WholeSecondsUntil(EndOfMonth(t), t)

\* The instants the clock passes: 2026-11-01 00:00:00.000, 2026-11-30 at
\* 12:00:00.000, 23:59:59.000 and 23:59:59.999, 2026-12-01 at 00:00:00.000
\* and 00:00:00.050, 2028-02-28 12:00:00.500; and the last day of the month
\* of each of these days.
TtlInstants ==
  << [day |-> 20758, ms |-> 0], [day |-> 20787, ms |-> 43200000],
     [day |-> 20787, ms |-> 86399000], [day |-> 20787, ms |-> 86399999],
     [day |-> 20788, ms |-> 0], [day |-> 20788, ms |-> 50],
     [day |-> 21242, ms |-> 43200500] >>

LastDayOfMonth == (20758 :> 20787) @@ (20787 :> 20787) @@ (20788 :> 20818) @@ (21242 :> 21243)

\* The entries of a store with expirations that a get at an instant finds.
LiveStore(store, t) ==
  [k \in {key \in DOMAIN store : Before(t, store[key].exp)} |-> store[k].text]

NoPut == [done |-> FALSE, at |-> [day |-> 0, ms |-> 0], keyDay |-> 0,
          dailyTTL |-> 0, monthlyTTL |-> 0,
          dailyExp |-> [day |-> 0, ms |-> 0], monthlyExp |-> [day |-> 0, ms |-> 0]]

InitTtl ==
  /\ Quiet
  /\ ownerPlan = "free"
  /\ usage0 = [daily |-> 0, monthly |-> 0]
  /\ usageKV = <<>>
  /\ arg = [at |-> 1, started |-> 0, inc |-> NoIncrement]
  /\ result = [store |-> <<>>, put |-> NoPut]

TtlNow == TtlInstants[arg.at]

\* incrementUsage, lines 150-161: the keys of the current day and month, the
\* usage read under them, the new values.
IncrementEnter ==
  /\ ~arg.inc.busy
  /\ arg.started < MaxRecords
  /\ LET date == CivilFromDays(TtlNow.day)
         stats == getUsageStatsOn(LiveStore(result.store, TtlNow), "dev1", date)
     IN arg' = [arg EXCEPT !.started = @ + 1,
                           !.inc = [busy |-> TRUE, day |-> TtlNow.day,
                                    dkey |-> DailyKeyOn("dev1", date),
                                    mkey |-> MonthlyKeyOn("dev1", date),
                                    newDaily |-> NewDaily(stats),
                                    newMonthly |-> NewMonthly(stats)]]
  /\ UNCHANGED <<result, gateway>>

\* incrementUsage, lines 162-173, once getUsageStats has answered: the two
\* TTLs from the instant now, and the puts under the keys computed on entry.
IncrementPut ==
  /\ arg.inc.busy
  /\ arg' = [arg EXCEPT !.inc = NoIncrement]
  /\ LET dexp == PlusSeconds(TtlNow, dailyTTL(TtlNow))
         mexp == PlusSeconds(TtlNow, monthlyTTL(TtlNow))
     IN result' =
          [store |-> (arg.inc.dkey :> [text |-> NumToStr(arg.inc.newDaily), exp |-> dexp])
                     @@ (arg.inc.mkey :> [text |-> NumToStr(arg.inc.newMonthly), exp |-> mexp])
                     @@ result.store,
           put |-> [done |-> TRUE, at |-> TtlNow, keyDay |-> arg.inc.day,
                    dailyTTL |-> dailyTTL(TtlNow), monthlyTTL |-> monthlyTTL(TtlNow),
                    dailyExp |-> dexp, monthlyExp |-> mexp]]
  /\ UNCHANGED gateway

\* The clock reaches the next instant.
NextInstant ==
  /\ arg.at < Len(TtlInstants)
  /\ arg' = [arg EXCEPT !.at = @ + 1]
  /\ UNCHANGED <<result, gateway>>

NextTtl == IncrementEnter \/ IncrementPut \/ NextInstant

SpecTtl == InitTtl /\ [][NextTtl]_vars

----
\* Requests one behaviour of the quota flow starts.
MaxQuotaStarts == 4

\* Quota: logins of one tenant and callbacks presenting the tokens these
\* logins were handed, inside one window, every outbound call answering.
NextQuota ==
  \/ \E r \in Requests : LoginStartWithin(r, WechatLogin, "ok", MaxQuotaStarts)
  \/ \E r \in Requests : LoginPlan(r, "ok")
  \/ \E r \in Requests, w \in {"daily", "monthly"} : ReadUsage(r, w)
  \/ \E r \in Requests, tok \in issued :
       CallbackStartWithin(r, SomeCode, tok.state, "ok", MaxQuotaStarts)
  \/ \E r \in Requests : CallbackExchange(r, TRUE)
  \/ \E r \in Requests : CallbackUserInfo(r, TRUE)
  \/ \E r \in Requests : CallbackIdentity(r, TRUE)
  \/ \E r \in Requests, w \in {"daily", "monthly"} : PutUsage(r, w)

SpecQuota == InitFree /\ [][NextQuota]_vars

\* Tenant updates whose write and invalidation succeed, next to logins and
\* callbacks resolving the tenant's configuration.
TenantUpdates == {"update_project", "add_provider", "update_provider"}

NextStale ==
  \/ \E op \in TenantUpdates : \E pv \in ProviderInputs(op) :
       AdminStart(op, App1, pv[1], pv[2], "dev1", "ok")
  \/ AdminWrite("ok")
  \/ AdminInvalidate("ok")
  \/ AdminRespond("ok")
  \/ ConfigFetch(App1)
  \/ ConfigStore

SpecStale == InitFree /\ [][NextStale]_vars

----
\* The redirect back to the application.  URLs are code-unit texts; what
\* matters of new URL(redirectPath, frontend_base_url) is where it points:
\* [scheme, host], the host with its port as written, empty for a scheme
\* without authority (javascript:, data:).
SpecialSchemes ==
  { <<104, 116, 116, 112>>,
    <<104, 116, 116, 112, 115>>,
    <<102, 116, 112>>,
    <<119, 115>>,
    <<119, 115, 115>>,
    <<102, 105, 108, 101>> }

IsSlash(c) == c = 47 \/ c = 92

\* The URL parser drops leading and trailing C0 controls and spaces and
\* every tab and newline of its input.
CleanInput(s0) ==
  LET s == SelectSeq(s0, LAMBDA c : c \notin {9, 10, 13})
      inner == {i \in 1..Len(s) : s[i] > 32}
  IN IF inner = {} THEN <<>>
     ELSE SubSeq(s, CHOOSE i \in inner : \A j \in inner : i <= j,
                    CHOOSE i \in inner : \A j \in inner : i >= j)

\* The number of code units of the scheme a text starts with, 0 for none.
SchemeLen(s) ==
  IF HasScheme(s)
  THEN (CHOOSE i \in 2..Len(s) : s[i] = 58 /\ \A j \in 2..(i - 1) : s[j] # 58) - 1
  ELSE 0

\* The host of the authority that starts at position i after any further
\* slashes: it ends at the next slash, question mark or hash, and what
\* stands before an at sign is user information.
HostFrom(s, i) ==
  LET rest == {j \in i..Len(s) : ~IsSlash(s[j])}
      from == IF rest = {} THEN Len(s) + 1 ELSE CHOOSE j \in rest : \A k \in rest : j <= k
      stops == {j \in from..Len(s) : s[j] \in {47, 92, 63, 35}}
      to == IF stops = {} THEN Len(s) ELSE (CHOOSE j \in stops : \A k \in stops : j <= k) - 1
      ats == {j \in from..to : s[j] = 64}
      host == IF ats = {} THEN from ELSE (CHOOSE j \in ats : \A k \in ats : j >= k) + 1
  IN ToLowerCase(SubSeq(s, host, to))

\* A URL of a special scheme needs a host: the constructor throws without.
Target(scheme, host) ==
  IF host = <<>> THEN Thrown ELSE Ok([scheme |-> scheme, host |-> host])

\* new URL(text) for a text that starts with a scheme.
ParseAbsolute(s) ==
  LET n == SchemeLen(s)
      scheme == ToLowerCase(SubSeq(s, 1, n))
  IN IF scheme \in SpecialSchemes THEN Target(scheme, HostFrom(s, n + 2))
     ELSE Ok([scheme |-> scheme, host |-> <<>>])

\* new URL(redirectPath, base) for a base of a special scheme: an input
\* with another scheme, or with two slashes of either kind after the scheme
\* or at its start, names its own host; every other input is a path on the
\* host of the base.
TargetOf(redirectPath, base) ==
  LET input == CleanInput(redirectPath)
      b == ParseAbsolute(base)
      n == SchemeLen(input)
      twoSlashes(i) == i + 1 <= Len(input) /\ IsSlash(input[i]) /\ IsSlash(input[i + 1])
  IN IF n > 0
       THEN IF ToLowerCase(SubSeq(input, 1, n)) = b.v.scheme /\ ~twoSlashes(n + 2)
              THEN b
            ELSE ParseAbsolute(input)
     ELSE IF twoSlashes(1) THEN Target(b.v.scheme, HostFrom(input, 1))
     ELSE b

\* frontend_base_url of a tenant: a bare origin, one with a path, one with
\* a port.
FrontendBases ==
  { <<104, 116, 116, 112, 115, 58, 47, 47, 97, 112, 112, 49, 46, 101, 120, 97, 109, 112, 108, 101>>,
    <<104, 116, 116, 112, 115, 58, 47, 47, 97, 112, 112, 49, 46, 101, 120, 97, 109, 112, 108, 101, 47, 97, 112, 112, 47>>,
    <<104, 116, 116, 112, 58, 47, 47, 108, 111, 99, 97, 108, 104, 111, 115, 116, 58, 51, 48, 48, 48>> }

\* The redirect field of a state token: a path, a relative path, URLs of
\* another host in several spellings, URLs of the tenant's own host, a
\* script URL, a scheme without host.
RedirectFields ==
  { <<47, 104, 111, 109, 101>>,
    <<104, 111, 109, 101>>,
    <<104, 116, 116, 112, 115, 58, 47, 47, 101, 118, 105, 108, 46, 101, 120, 97, 109, 112, 108, 101, 47, 120>>,
    <<47, 47, 101, 118, 105, 108, 46, 101, 120, 97, 109, 112, 108, 101, 47, 120>>,
    <<47, 92, 101, 118, 105, 108, 46, 101, 120, 97, 109, 112, 108, 101, 47, 120>>,
    <<47, 9, 47, 101, 118, 105, 108, 46, 101, 120, 97, 109, 112, 108, 101>>,
    <<104, 116, 116, 112, 115, 58, 47, 47, 97, 112, 112, 49, 46, 101, 120, 97, 109, 112, 108, 101, 64, 101, 118, 105, 108, 46, 101, 120, 97, 109, 112, 108, 101, 47>>,
    <<104, 116, 116, 112, 58, 101, 118, 105, 108, 46, 101, 120, 97, 109, 112, 108, 101>>,
    <<104, 116, 116, 112, 115, 58, 47, 47, 97, 112, 112, 49, 46, 101, 120, 97, 109, 112, 108, 101, 47, 104, 111, 109, 101>>,
    <<104, 116, 116, 112, 115, 58, 47, 104, 111, 109, 101>>,
    <<106, 97, 118, 97, 115, 99, 114, 105, 112, 116, 58, 97, 108, 101, 114, 116, 40, 49, 41>>,
    <<104, 116, 116, 112, 115, 58, 47, 47>> }

InitRedirect ==
  /\ Quiet
  /\ ownerPlan = "free"
  /\ usage0 = [daily |-> 0, monthly |-> 0]
  /\ usageKV = <<>>
  /\ arg \in [redirect : RedirectFields, base : FrontendBases,
              ending : {"success", "error"}]
  /\ result = [stage |-> "none", url |-> Thrown, status |-> 0]

\* handleCallback, line 222 on success and line 241 in the catch block:
\* new URL(redirectPath, appConfig.frontend_base_url).
BuildRedirectUrl ==
  /\ result.stage = "none"
  /\ result' = [result EXCEPT !.stage = "built",
                              !.url = TargetOf(arg.redirect, arg.base)]
  /\ UNCHANGED <<arg, gateway>>

\* Response.redirect(redirectUrl.toString(), 302) on success (line 231),
\* redirectWithError(frontendUrl.toString(), ...) in the catch block (lines
\* 242-246); when the constructor threw, the catch block ends with
\* createErrorResponse(..., 500) (lines 252-256).
RespondRedirect ==
  /\ result.stage = "built"
  /\ result' = [result EXCEPT !.stage = "responded",
                              !.status = IF result.url.ok THEN 302 ELSE 500]
  /\ UNCHANGED <<arg, gateway>>

NextRedirect == BuildRedirectUrl \/ RespondRedirect

SpecRedirect == InitRedirect /\ [][NextRedirect]_vars

----
\* Tokens whose timestamp is not the instant they are decoded at or one
\* before it.  Milliseconds between the decoding and the timestamp of the
\* token: negative for a timestamp that lies ahead.
CodecSkews == {-86400000, -600001, -1, 0, 1, 600000, 600001}

SkewArgs ==
  { [kind |-> "issue", cat |-> "token", app_id |-> a, provider |-> p, redirect |-> d,
     nonce |-> n, t |-> StartNow - g, at |-> StartNow, s |-> Empty] :
    a \in CodecApps, p \in CodecProviders, d \in CodecRedirects, n \in CodecNonces,
    g \in CodecSkews }

\* The JSON text of the state object with the given text as its timestamp.
ObjectWithTimestamp(text) ==
  <<123>> \o JoinMembers(SubSeq(StateMembers, 1, 4) \o << <<K_timestamp, text>> >>)
  \o <<125>>

\* State objects a caller serializes itself: the timestamp a word, a
\* decimal text, true, an array of one number.
Timestamps ==
  [ word |-> JSONQuote(<<115, 111, 111, 110>>),
    decimal_text |-> JSONQuote(NumToStr(StartNow)),
    true |-> <<116, 114, 117, 101>>,
    array |-> <<91>> \o JSONNumber(StartNow + 1) \o <<93>> ]

SkewTexts ==
  { [kind |-> "text", cat |-> c, app_id |-> Empty, provider |-> Empty,
     redirect |-> Empty, nonce |-> Empty, t |-> 0, at |-> StartNow,
     s |-> btoa(ObjectWithTimestamp(Timestamps[c])).v] : c \in DOMAIN Timestamps }

InitSkew ==
  /\ Quiet
  /\ ownerPlan = "free"
  /\ usage0 = [daily |-> 0, monthly |-> 0]
  /\ usageKV = <<>>
  /\ arg \in SkewArgs \cup SkewTexts
  /\ result = NoRes

SpecSkew == InitSkew /\ [][NextCodec]_vars

----
\* The plan resolver on its own.  What the plan column of the owner's row
\* and the plan cache can hold: the four plans, no value, the empty text,
\* and texts that name no plan.
PlanValues == Plans \cup {NoValue, "", "premium", "FREE"}

\* The plan cache before the call: nothing, or an entry with one of the
\* texts, still readable or expired.
PlanCaches ==
  {<<>>} \cup
  { ("dev1" :> [plan |-> p, exp |-> e]) :
      p \in PlanValues \ {NoValue}, e \in {StartNow, StartNow + 1} }

InitResolve ==
  /\ Quiet
  /\ ownerPlan = "free"
  /\ usage0 = [daily |-> 0, monthly |-> 0]
  /\ usageKV = <<>>
  /\ arg \in [stored : PlanValues, cache : PlanCaches, outcome : PlanOutcomes]
  /\ result = [stage |-> "none", plan |-> NoValue, cache |-> <<>>, limits |-> Thrown]

\* handleLogin, line 41: getDeveloperPlan(env, developerId).
ResolvePlan ==
  /\ result.stage = "none"
  /\ \E res \in {getDeveloperPlan("dev1", arg.outcome, arg.cache, arg.stored, now)} :
       result' = [result EXCEPT !.stage = "resolved", !.plan = res.plan,
                                !.cache = res.cache]
  /\ UNCHANGED <<arg, gateway>>

\* checkLimits, lines 184-188: PLAN_CONFIG[plan], and limits.daily, which
\* throws a TypeError when the lookup gave undefined.
LookupLimits ==
  /\ result.stage = "resolved"
  /\ result' = [result EXCEPT !.stage = "looked_up",
                              !.limits = IF result.plan \in DOMAIN PLAN_CONFIG
                                         THEN Ok(PLAN_CONFIG[result.plan])
                                         ELSE Thrown]
  /\ UNCHANGED <<arg, gateway>>

NextResolve == ResolvePlan \/ LookupLimits

SpecResolve == InitResolve /\ [][NextResolve]_vars

\* One namespace: every get, put and delete of the worker goes to the same
\* KV binding env.APP_CACHE.  Here it holds the cached tenant configurations
\* (project:<app_id>), the cached plans (developer:<id>:plan) and the usage
\* counters together, each entry [text, exp] with the instant it expires.
App2 == <<97, 112, 112, 50>>
App3 == <<97, 112, 112, 51>>

\* Three tenants: two of the owner dev1, one of the owner dev2.
TenantOwner == (App1 :> "dev1") @@ (App2 :> "dev1") @@ (App3 :> "dev2")

Tenants == DOMAIN TenantOwner

\* The key `project:${app_id}` of getCachedAppConfig and setCachedAppConfig.
ProjectCacheKey(app_id) == [kind |-> "project", app_id |-> app_id]

\* A plan cache key that lies among the usage keys.
PlanKeyAmongUsage(developerId) == DailyKeyOn(developerId, CivilFromDays(20787))

\* cacheKey of getDeveloperPlan (line 221): `developer:${developerId}:plan`.
PlanCacheKey(developerId) == [kind |-> "plan", developer |-> developerId]

\* The plan names as the texts the plan cache holds.
PlanTexts ==
  ("free" :> <<102, 114, 101, 101>>) @@ ("pro" :> <<112, 114, 111>>)
  @@ ("business" :> <<98, 117, 115, 105, 110, 101, 115, 115>>)
  @@ ("enterprise" :> <<101, 110, 116, 101, 114, 112, 114, 105, 115, 101>>)

\* APP_CACHE.put(key, text, { expirationTtl: ttl }) at an instant.
PutWithTtl(kv, key, text, t, ttl) ==
  (key :> [text |-> text, exp |-> PlusSeconds(t, ttl)]) @@ kv

\* getDeveloperPlan (lines 216-260) on the namespace: [plan, kv].
getDeveloperPlanIn(kv, developerId, outcome, stored, t) ==
  LET cacheKey == PlanCacheKey(developerId)
      cached == KVGet(LiveStore(kv, t), cacheKey)
  IN IF cached.present /\ \E p \in Plans : PlanTexts[p] = cached.s
       THEN [plan |-> CHOOSE p \in Plans : PlanTexts[p] = cached.s, kv |-> kv]
     ELSE IF outcome = "ok"
       THEN [plan |-> PlanOrFree(stored),
             kv |-> PutWithTtl(kv, cacheKey, PlanTexts[PlanOrFree(stored)], t, PLAN_CACHE_TTL)]
     ELSE [plan |-> "free", kv |-> kv]

\* getAppConfig (supabase.ts lines 181-248) on the namespace: [cfg, kv], the
\* configuration cut down to the owner of the tenant.
getAppConfigIn(kv, app_id, outcome, t) ==
  LET cached == KVGet(LiveStore(kv, t), ProjectCacheKey(app_id))
      built == [NoCfg EXCEPT !.found = TRUE, !.developer_id = TenantOwner[app_id]]
  IN IF cached.present THEN [cfg |-> cached.s, kv |-> kv]
     ELSE IF outcome = "ok" /\ app_id \in Tenants
       THEN [cfg |-> built, kv |-> PutWithTtl(kv, ProjectCacheKey(app_id), built, t, CACHE_TTL)]
     ELSE [cfg |-> NoCfg, kv |-> kv]

\* getUsageStats and checkLimits on the namespace at an instant.
getUsageStatsIn(kv, developerId, t) ==
  getUsageStatsOn(LiveStore(kv, t), developerId, CivilFromDays(t.day))

checkLimitsIn(kv, developerId, plan, t) ==
  LimitDecision(getUsageStatsIn(kv, developerId, t), plan)

\* 2026-11-30 at 12:00:00.000 and 12:00:00.500, and 301 seconds later, when
\* what the caches held at noon has expired.
FrameInstants ==
  << [day |-> 20787, ms |-> 43200000], [day |-> 20787, ms |-> 43200500],
     [day |-> 20787, ms |-> 43501000] >>

\* Operations started in all.
MaxFrameOps == 3

\* The counters of dev1 at the start: never written, one below the daily
\* limit of the free plan, at the limit.
FrameStarts == {0, 199, 200}

FrameStartKV(n) ==
  IF n = 0 THEN <<>>
  ELSE PutWithTtl(PutWithTtl(<<>>, DailyKeyOn("dev1", CivilFromDays(20787)), NumToStr(n),
                             FrameInstants[1], dailyTTL(FrameInstants[1])),
                  MonthlyKeyOn("dev1", CivilFromDays(20787)), NumToStr(n),
                  FrameInstants[1], monthlyTTL(FrameInstants[1]))

InitFrame ==
  /\ Quiet
  /\ ownerPlan = "free"
  /\ usage0 = [daily |-> 0, monthly |-> 0]
  /\ usageKV = <<>>
  /\ \E n \in FrameStarts :
       /\ arg = [at |-> 1, started |-> 0, start |-> n,
                 inc |-> [a \in Tenants |-> NoIncrement]]
       /\ result = [kv |-> FrameStartKV(n), n |-> 0, op |-> "none",
                    out |-> "none", seen |-> {}, lost |-> FALSE,
                    counted |-> [a \in Tenants |-> 0]]

FrameNow == FrameInstants[arg.at]

\* An operation has answered; seen keeps the answers logins have had.
Answered(kv, op, out) ==
  [result EXCEPT !.kv = kv, !.n = @ + 1, !.op = op, !.out = out,
                 !.seen = IF op = "login" THEN @ \cup {out} ELSE @]

\* GET /usage/stats (fetch, lines 96-133): getUsageStats and getDeveloperPlan
\* of the developer_id parameter.
UsageStatsRequest(o, outcome) ==
  /\ arg.started < MaxFrameOps
  /\ arg' = [arg EXCEPT !.started = @ + 1]
  /\ LET res == getDeveloperPlanIn(result.kv, o, outcome, "free", FrameNow)
     IN result' = Answered(res.kv, "get_usage", "200")
  /\ UNCHANGED gateway

\* checkLimits(env, developerId, plan) (lines 179-211).
CheckAdmission(o, plan) ==
  /\ arg.started < MaxFrameOps
  /\ arg' = [arg EXCEPT !.started = @ + 1]
  /\ result' = Answered(result.kv, "check_admission",
                        IF checkLimitsIn(result.kv, o, plan, FrameNow).allowed
                        THEN "allowed" ELSE "denied")
  /\ UNCHANGED gateway

\* handleLogin (lines 14-123) for a tenant: getAppConfig, getDeveloperPlan,
\* checkLimits, and the answer: 404 without a configuration, 429 when denied,
\* the redirect to the provider when allowed.
LoginRequest(a, outcome) ==
  /\ arg.started < MaxFrameOps
  /\ arg' = [arg EXCEPT !.started = @ + 1]
  /\ LET app == getAppConfigIn(result.kv, a, outcome, FrameNow)
         res == getDeveloperPlanIn(app.kv, app.cfg.developer_id, outcome, "free", FrameNow)
     IN result' =
          IF ~app.cfg.found THEN Answered(app.kv, "login", "404")
          ELSE Answered(res.kv, "login",
                        IF checkLimitsIn(res.kv, app.cfg.developer_id, res.plan, FrameNow).allowed
                        THEN "302" ELSE "429")
  /\ UNCHANGED gateway

\* handleCallback for a tenant up to the reads of incrementUsage (part_007
\* lines 140-219, error.ts lines 150-161): the configuration of the tenant of
\* the state token, then the keys of its developer_id and the usage under
\* them.
CallbackEnter(a) ==
  /\ ~arg.inc[a].busy
  /\ arg.started < MaxFrameOps
  /\ LET app == getAppConfigIn(result.kv, a, "ok", FrameNow)
         o == app.cfg.developer_id
         stats == getUsageStatsIn(app.kv, o, FrameNow)
     IN /\ arg' = [arg EXCEPT !.started = @ + 1,
                              !.inc[a] = [busy |-> TRUE, day |-> FrameNow.day,
                                          dkey |-> DailyKeyOn(o, CivilFromDays(FrameNow.day)),
                                          mkey |-> MonthlyKeyOn(o, CivilFromDays(FrameNow.day)),
                                          newDaily |-> NewDaily(stats),
                                          newMonthly |-> NewMonthly(stats)]]
        /\ result' = [result EXCEPT
                        !.kv = app.kv,
                        !.lost = @ \/ \E b \in Tenants \ {a} :
                                        arg.inc[b].busy /\ TenantOwner[b] = TenantOwner[a]]
  /\ UNCHANGED gateway

\* incrementUsage, lines 162-173: the two puts, with the TTLs of the instant.
CallbackRecord(a) ==
  /\ arg.inc[a].busy
  /\ arg' = [arg EXCEPT !.inc[a] = NoIncrement]
  /\ result' =
       [Answered(PutWithTtl(PutWithTtl(result.kv, arg.inc[a].dkey,
                                       NumToStr(arg.inc[a].newDaily), FrameNow,
                                       dailyTTL(FrameNow)),
                            arg.inc[a].mkey, NumToStr(arg.inc[a].newMonthly), FrameNow,
                            monthlyTTL(FrameNow)),
                 "record_success", "302")
        EXCEPT !.counted[a] = @ + 1]
  /\ UNCHANGED gateway

\* The clock reaches the next instant.
FrameTick ==
  /\ arg.at < Len(FrameInstants)
  /\ arg' = [arg EXCEPT !.at = @ + 1]
  /\ UNCHANGED <<result, gateway>>

NextFrame ==
  \/ \E o \in Owners, outcome \in {"ok", "down"} : UsageStatsRequest(o, outcome)
  \/ \E o \in Owners : CheckAdmission(o, "free")
  \/ \E a \in Tenants, outcome \in {"ok", "down"} : LoginRequest(a, outcome)
  \/ \E a \in Tenants : CallbackEnter(a)
  \/ \E a \in Tenants : CallbackRecord(a)
  \/ FrameTick

SpecFrame == InitFrame /\ [][NextFrame]_vars

\* Identities: getOrCreateUser of the SupabaseClient against the user store
\* of a tenant.  The store is a list of users [id, email]; each call is a
\* caller with its position.
OpenId1 == <<111, 49>>
OpenId2 == <<111, 50>>
UnionId1 == <<117, 49>>

\* Normalized users: two wechat accounts of one unionid, a qq account
\* without a unionid.
IdentityInputs ==
  { [provider |-> Wechat, openid |-> OpenId1, unionid |-> UnionId1],
    [provider |-> Wechat, openid |-> OpenId2, unionid |-> UnionId1],
    [provider |-> QQ, openid |-> OpenId1, unionid |-> Empty] }

\* email of getOrCreateUser (line 151):
\* `${provider}_${unionid || openid}@oauth.fake`.
FakeEmail(normalizedUser) ==
  normalizedUser.provider \o <<95>>
  \o (IF normalizedUser.unionid # Empty THEN normalizedUser.unionid
      ELSE normalizedUser.openid)
  \o <<64, 111, 97, 117, 116, 104, 46, 102, 97, 107, 101>>

\* users.find(u => u.email === email) || null of findUserByEmail: the id of
\* the first user with the email, 0 for null.
FindByEmail(users, email) ==
  IF \E i \in 1..Len(users) : users[i].email = email
  THEN users[CHOOSE i \in 1..Len(users) :
               /\ users[i].email = email
               /\ \A j \in 1..(i - 1) : users[j].email # email].id
  ELSE 0

\* Calls of getOrCreateUser in all.
MaxIdentityCalls == 3

Callers == 1..2

NoCaller == [pc |-> "idle", email |-> Empty, listing |-> <<>>, user |-> 0, err |-> "none"]

InitIdentity ==
  /\ Quiet
  /\ ownerPlan = "free"
  /\ usage0 = [daily |-> 0, monthly |-> 0]
  /\ usageKV = <<>>
  /\ arg = [started |-> 0]
  /\ result = [users |-> <<>>, caller |-> [p \in Callers |-> NoCaller],
               creates |-> <<>>, existing |-> FALSE]

\* getOrCreateUser, lines 150-153: the email, and findUserByEmail sends its
\* GET /auth/v1/admin/users.
GetOrCreateStart(p, normalizedUser) ==
  /\ result.caller[p].pc \in {"idle", "done"}
  /\ arg.started < MaxIdentityCalls
  /\ arg' = [started |-> arg.started + 1]
  /\ result' = [result EXCEPT !.caller[p] = [NoCaller EXCEPT !.pc = "find",
                                                            !.email = FakeEmail(normalizedUser)]]
  /\ UNCHANGED gateway

\* The store answers the listing with the users it holds at that moment, or
\* with a non-success status.
ListingServed(p, ok) ==
  /\ result.caller[p].pc = "find"
  /\ result' = [result EXCEPT !.caller[p] =
                  IF ok THEN [@ EXCEPT !.pc = "found", !.listing = result.users]
                  ELSE [@ EXCEPT !.pc = "done", !.err = "find"]]
  /\ UNCHANGED <<arg, gateway>>

\* findUserByEmail returns (lines 68-71) and getOrCreateUser goes on (lines
\* 155-174): with a user it returns it; with null createUser sends its POST.
\* creates counts the POSTs per email; existing notes a POST sent for an
\* email the store holds at that moment.
ListingReturned(p) ==
  /\ result.caller[p].pc = "found"
  /\ LET c == result.caller[p]
         id == FindByEmail(c.listing, c.email)
     IN result' =
          IF id # 0 THEN [result EXCEPT !.caller[p] = [c EXCEPT !.pc = "done", !.user = id]]
          ELSE [result EXCEPT
                  !.caller[p] = [c EXCEPT !.pc = "create"],
                  !.creates = (c.email :> (IF c.email \in DOMAIN @ THEN @[c.email] ELSE 0) + 1)
                              @@ @,
                  !.existing = @ \/ FindByEmail(result.users, c.email) # 0]
  /\ UNCHANGED <<arg, gateway>>

\* The store answers the POST: a new user; for an email it holds already, a
\* rejection (createUser throws, lines 97-100) or a second user with the
\* same email, whichever the store does.
CreateServed(p, duplicate) ==
  /\ result.caller[p].pc = "create"
  /\ LET c == result.caller[p]
         id == Len(result.users) + 1
     IN result' =
          IF FindByEmail(result.users, c.email) # 0 /\ duplicate = "reject"
            THEN [result EXCEPT !.caller[p] = [c EXCEPT !.pc = "done", !.err = "create"]]
          ELSE [result EXCEPT
                  !.users = Append(@, [id |-> id, email |-> c.email]),
                  !.caller[p] = [c EXCEPT !.pc = "done", !.user = id]]
  /\ UNCHANGED <<arg, gateway>>

NextIdentity ==
  \/ \E p \in Callers, nu \in IdentityInputs : GetOrCreateStart(p, nu)
  \/ \E p \in Callers, ok \in BOOLEAN : ListingServed(p, ok)
  \/ \E p \in Callers : ListingReturned(p)
  \/ \E p \in Callers, d \in {"reject", "accept"} : CreateServed(p, d)

SpecIdentity == InitIdentity /\ [][NextIdentity]_vars

(***************************************************************************)
(* Part 6: properties                                                      *)
(***************************************************************************)

Range(seq) == {seq[i] : i \in 1..Len(seq)}

AllIdle == \A r \in Requests : pc[r] = "idle"

\* The counts stored for dev1 in the starting day and month.
DailyCount == UsageValue(KVGet(usageKV, getDailyUsageKey("dev1", StartNow)))

MonthlyCount == UsageValue(KVGet(usageKV, getMonthlyUsageKey("dev1", StartNow)))

\* The steps hold a code exchange, a user-info fetch and an identity
\* resolution, in this order, and no failure.
Completed(steps) ==
  /\ "threw" \notin Range(steps)
  /\ \E i, j, k \in 1..Len(steps) :
       /\ i < j /\ j < k
       /\ steps[i] = "exchanged" /\ steps[j] = "userinfo" /\ steps[k] = "identity"

\* C1: whenever a step changes a usage counter, the step is taken by a
\* callback that has completed code exchange, user-info fetch and identity
\* find-or-create; every other step (of a login, of a callback that failed
\* or has not got that far) leaves the counters as they are.
C1_OnlyCompletedCallbackWrites ==
  [][usageKV' # usageKV =>
       \E r \in Requests :
         /\ pc[r] = "c_put" /\ loc[r].kind = "callback"
         /\ loc'[r] # loc[r]
         /\ Completed(trace[r])]_vars

\* C1: a callback has recorded one login, and a later callback that failed
\* in the provider exchange has left the counters at that.
C1_FailedAfterRecorded ==
  /\ recorded = 1
  /\ DailyCount = usage0.daily + 1 /\ MonthlyCount = usage0.monthly + 1
  /\ last.kind = "callback" /\ last.resp.error = "oauth_failed"
  /\ "exchanged" \notin Range(last.trace)

\* C2: checkLimits denies with "Daily limit exceeded" exactly when the daily
\* count has reached the plan's daily limit, whatever the monthly count;
\* otherwise with "Monthly limit exceeded" exactly when the monthly count
\* has reached the monthly limit; otherwise it allows.  On the free plan 200
\* is denied and 199 with a monthly count below 6000 is allowed.
C2_AdmissionDecision ==
  result.stage = "decided" =>
    LET L == PLAN_CONFIG[ownerPlan]
        o == result.out
    IN /\ usage0.daily >= L.daily =>
            ~o.allowed /\ o.reason = "Daily limit exceeded"
       /\ usage0.daily < L.daily /\ usage0.monthly >= L.monthly =>
            ~o.allowed /\ o.reason = "Monthly limit exceeded"
       /\ usage0.daily < L.daily /\ usage0.monthly < L.monthly => o.allowed
       /\ ownerPlan = "free" /\ usage0.daily = 200 => ~o.allowed
       /\ ownerPlan = "free" /\ usage0.daily = 199 /\ usage0.monthly < 6000 => o.allowed
       /\ o.current_usage = usage0

\* C2: the free plan at 200 logins today and none counted this month has
\* been denied for the day.
C2_FreeAtDailyLimit ==
  /\ result.stage = "decided"
  /\ ownerPlan = "free" /\ usage0.daily = 200 /\ usage0.monthly = 0
  /\ ~result.out.allowed /\ result.out.reason = "Daily limit exceeded"

\* The tier above a plan, if any.
NextTier(plan) ==
  CASE plan = "free" -> "pro"
    [] plan = "pro" -> "business"
    [] plan = "business" -> "enterprise"
    [] OTHER -> NoValue

\* C3: a login that finds the usage of its owner at a limit of the plan it
\* resolved answers 429 LIMIT_EXCEEDED with the reason, that plan, the next
\* tier above it and the usage; it issues no state token and returns no
\* redirect to a provider.
C3_DeniedLogin ==
  [][\A r \in Requests :
       pc[r] = "l_usage" /\ pc'[r] = "idle" =>
         LET plan == loc[r].plan
             u == [daily |-> UsageValue(KVGet(usageKV, loc[r].dkey)),
                   monthly |-> UsageValue(KVGet(usageKV, loc[r].mkey))]
             L == PLAN_CONFIG[plan]
         IN u.daily >= L.daily \/ u.monthly >= L.monthly =>
              /\ last'.kind = "login"
              /\ last'.resp.status = 429
              /\ last'.resp.error = "LIMIT_EXCEEDED"
              /\ last'.resp.description =
                   (IF u.daily >= L.daily THEN "Daily limit exceeded"
                    ELSE "Monthly limit exceeded")
              /\ last'.resp.current_plan = plan
              /\ last'.resp.required_plan = NextTier(plan)
              /\ last'.resp.current_usage = u
              /\ last'.resp.to = "none" /\ last'.resp.state = Empty
              /\ issued' = issued
              /\ Range(last'.trace) \cap {"token", "redirect"} = {}]_vars

\* C3: a free-plan owner at 200 logins has been answered 429 with pro as the
\* required plan, and no token is out.
C3_FreeDenied ==
  /\ last.kind = "login" /\ last.resp.status = 429
  /\ last.resp.current_plan = "free" /\ last.resp.required_plan = "pro"
  /\ last.resp.current_usage.daily = 200
  /\ issued = {}

\* C4: once k >= 1 callbacks have recorded a login inside one window and no
\* request is in flight, the daily count is at least 1 and at most k above
\* its starting value, and exactly k above when no two incrementUsage
\* executions overlapped.
C4_CounterRise ==
  AllIdle /\ recorded >= 1 =>
    /\ DailyCount >= usage0.daily + 1
    /\ DailyCount <= usage0.daily + recorded
    /\ ~overlap => DailyCount = usage0.daily + recorded

\* C4: two overlapping incrementUsage executions have completed and the
\* daily count has risen by one only.
C4_LostUpdate ==
  /\ AllIdle /\ recorded = 2 /\ overlap
  /\ DailyCount = usage0.daily + 1

\* C5: no step lowers a stored usage count.
C5_NeverDecreases ==
  [][\A k \in DOMAIN usageKV :
       UsageValue(KVGet(usageKV', k)) >= UsageValue(KVGet(usageKV, k))]_vars

\* C6: an incrementUsage execution that no other one overlapped leaves both
\* counts exactly one above what they were when it was entered.
C6_SoloIncrement ==
  [][\A r \in Requests :
       pc[r] = "c_put" /\ pc'[r] = "idle" /\ loc[r].alone =>
         /\ UsageValue(KVGet(usageKV', loc[r].dkey)) = loc[r].entryDaily + 1
         /\ UsageValue(KVGet(usageKV', loc[r].mkey)) = loc[r].entryMonthly + 1]_vars

\* C6: the first callback of an owner without usage has completed: both
\* keys, absent before, hold 1.
C6_FirstLogin ==
  /\ usage0.daily = 0 /\ usage0.monthly = 0
  /\ recorded = 1 /\ ~overlap
  /\ last.kind = "callback" /\ last.resp.to = "app"
  /\ KVGet(usageKV, getDailyUsageKey("dev1", StartNow)) = Stored(<<49>>)
  /\ KVGet(usageKV, getMonthlyUsageKey("dev1", StartNow)) = Stored(<<49>>)

\* The token encodeState(arg) stands for.
ArgToken ==
  JsObj((K_app_id :> JsStr(arg.app_id)) @@ (K_provider :> JsStr(arg.provider))
        @@ (K_redirect :> JsStr(arg.redirect)) @@ (K_nonce :> JsStr(arg.nonce))
        @@ (K_timestamp :> JsNum(arg.t)))

\* C7: for non-empty fields, encodeState returns a token, and decodeState
\* of it inside the expiration window returns the four fields and the
\* encoding time.
C7_RoundTrip ==
  arg.kind = "issue" /\ arg.at - arg.t <= 600000 =>
    /\ result.stage = "encoded" => result.token.ok
    /\ result.stage = "decoded" => result.out = Ok(ArgToken)

\* C8: decodeState rejects a token made by encodeState exactly when more
\* than 600000 ms have passed since it was encoded.
C8_ExpiryBoundary ==
  arg.kind = "issue" /\ result.stage = "decoded" =>
    /\ result.out.ok
    /\ (result.out.v = JsNull) <=> (arg.at - arg.t > 600000)

\* C8: a token exactly 600000 ms old has been decoded and accepted.
C8_AcceptedAtWindow ==
  /\ arg.kind = "issue" /\ result.stage = "decoded"
  /\ arg.at - arg.t = 600000
  /\ result.out = Ok(ArgToken)

\* C9: decodeState completes with a token or with null and never throws;
\* text that is no base64, no JSON, JSON that is no object, or an object
\* without one of the five fields yields null.
C9_NeverThrows ==
  result.stage = "decoded" =>
    /\ result.out.ok
    /\ arg.kind = "text" => result.out.v = JsNull
    /\ arg.kind = "issue" => result.out.v \in {JsNull, ArgToken}

\* C9: the base64 of the JSON text null, on which the property access
\* throws, has been decoded to null.
C9_NullPayload ==
  /\ arg.kind = "text" /\ arg.cat = "json_null"
  /\ result.stage = "decoded"
  /\ result.out = Ok(JsNull)

\* This step starts a callback that presents the state text s.
StartsCallback(s) ==
  /\ started' = started + 1
  /\ IF pc' = pc THEN last'.kind = "callback" /\ last'.state = s
     ELSE \E r \in Requests :
            pc'[r] # pc[r] /\ loc'[r].kind = "callback" /\ loc'[r].stateStr = s

\* C10 as stated: no state text is accepted past state validation twice.
C10_ConsumedOnce == \A s \in DOMAIN accepted : accepted[s] <= 1

\* C10 as the code has it: a callback presenting a token a login handed out
\* is accepted past state validation exactly when at most 600000 ms have
\* passed since the login, however often the token was presented before.
C10_AcceptedWhileFresh ==
  [][\A tok \in issued :
       StartsCallback(tok.state) =>
         ((accepted' = Accept(accepted, tok.state)) <=> (now - tok.at <= 600000))]_vars

\* C10: one token has been accepted twice, and both callbacks have recorded
\* a login.
C10_Replayed ==
  /\ \E tok \in issued : tok.state \in DOMAIN accepted /\ accepted[tok.state] = 2
  /\ recorded = 2

\* A state text that is no token, or a token a login handed out more than
\* 600000 ms ago.
Stale(s) ==
  \/ s = GarbageState
  \/ \E tok \in issued : tok.state = s /\ now - tok.at > 600000

\* C11: a callback that presents a code and a state text that is no token or
\* a token issued more than 600000 ms ago is answered at once with 400
\* invalid_state: the step that receives it returns, leaves no request in
\* flight, and changes neither the tenant-configuration cache nor the usage
\* counters; no adapter, identity-store or usage step follows.
C11_RejectedAtOnce ==
  [][\A s \in RejectStates :
       StartsCallback(s) /\ Stale(s) =>
         /\ pc' = pc
         /\ last'.resp = createErrorResponse("invalid_state", "State is invalid or expired", 400)
         /\ last'.trace = <<"params", "bad_state">>
         /\ appCache' = appCache /\ usageKV' = usageKV
         /\ accepted' = accepted /\ recorded' = recorded]_vars

\* C11: a token a login handed out has been presented 600001 ms later, when
\* the tenant's cached configuration has expired too, and was rejected; the
\* cache still holds the expired entry.
C11_ExpiredRejected ==
  /\ last.kind = "callback" /\ last.resp.error = "invalid_state"
  /\ \E tok \in issued : tok.state = last.state /\ now - tok.at = 600001
  /\ App1 \in DOMAIN appCache /\ ~CacheLive(appCache, App1, now)

\* The tenant's configuration holds the provider, enabled.
Enabled(cfg, provider) ==
  \E i \in 1..Len(cfg.providers) :
    cfg.providers[i].provider = provider /\ cfg.providers[i].enabled

\* The usage the checkLimits of login r has read once its last read, the
\* one still pending, has answered.
UsageRead(r) ==
  [daily |-> IF "daily" \in loc[r].pend
             THEN UsageValue(KVGet(usageKV, loc[r].dkey)) ELSE loc[r].daily,
   monthly |-> IF "monthly" \in loc[r].pend
               THEN UsageValue(KVGet(usageKV, loc[r].mkey)) ELSE loc[r].monthly]

C13_ErrorsRedirect ==
  last.resp.error # NoValue /\ "config" \in Range(last.trace) =>
    last.resp.status = 302 /\ last.resp.to = "app"

\* The failure kind of a returned request, from the steps it took.
FailureKind(l) ==
  LET steps == Range(l.trace)
  IN CASE "no_params" \in steps -> "MissingParameters"
       [] "no_app" \in steps -> "UnknownTenant"
       [] "bad_state" \in steps -> "InvalidOrExpiredState"
       [] "denied" \in steps -> "AdmissionDenied"
       [] steps \cap {"no_provider", "disabled", "unsupported"} # {} ->
            "UnknownOrDisabledProvider"
       [] "threw" \in steps /\ l.kind = "callback" /\ "userinfo" \in steps ->
            "IdentityResolutionFailure"
       [] "threw" \in steps /\ l.kind = "callback" /\ "exchanged" \in steps ->
            "ProviderUserInfoFailure"
       [] "threw" \in steps /\ l.kind = "callback" /\ "config" \in steps ->
            "ProviderExchangeFailure"
       [] "threw" \in steps -> "InternalError"
       [] OTHER -> "none"

\* C14: two requests that return one after the other with a failure carry
\* the same error code exactly when their failures are of the same kind.
C14_DistinctCodes ==
  [][FailureKind(last) # "none" /\ FailureKind(last') # "none" =>
       ((FailureKind(last) = FailureKind(last')) <=> (last.resp.error = last'.resp.error))]_vars

\* The message texts of the exceptions the master store and the runtime
\* raise in the model: masterClient.fetch or btoa throwing inside
\* handleLogin, masterClient.fetch throwing inside handleCallback.
InternalMessages == {"exception message", "config"}

\* C15: no response carries the message text of such an exception, neither
\* as the error_description of a JSON body nor as that of an error redirect.
C15_NoInternalDetail == last.resp.description \notin InternalMessages

\* C16: a login that resolves its owner's plan while no valid plan is cached
\* and whose lookup fails (the plan cache is left as it was) goes on with
\* the plan free to checkLimits; and a login that goes on with the plan
\* free is denied exactly when the usage it read has reached 200 for the day
\* or 6000 for the month, and otherwise not stopped by admission.
C16_FallsBackToFree ==
  [][\A r \in Requests :
       /\ pc[r] = "l_plan" /\ pc'[r] # "l_plan"
          /\ ~CacheLive(planCache, loc[r].cfg.developer_id, now)
          /\ planCache' = planCache
          => /\ pc'[r] = "l_usage"
             /\ loc'[r].plan = "free"
             /\ loc'[r].pend = {"daily", "monthly"}
       /\ pc[r] = "l_usage" /\ pc'[r] = "idle" /\ loc[r].plan = "free"
          => /\ (last'.resp.status = 429) <=>
                  (UsageRead(r).daily >= 200 \/ UsageRead(r).monthly >= 6000)
             /\ last'.resp.status = 429 => last'.resp.current_plan = "free"
             /\ last'.resp.status # 429 => "admitted" \in Range(last'.trace)]_vars

\* C16: an owner on a paid plan, 200 or more logins today, no plan cached
\* and the lookup failing: the login was checked against the free limits and
\* denied with current_plan free.
C16_PaidOwnerDeniedAsFree ==
  /\ ownerPlan # "free" /\ planCache = <<>>
  /\ usage0.daily >= 200 /\ usage0.daily < PLAN_CONFIG[ownerPlan].daily
  /\ last.kind = "login" /\ last.resp.status = 429
  /\ last.resp.current_plan = "free" /\ last.resp.required_plan = "pro"

\* C17: getRecommendedPlan maps free to pro, pro to business, business to
\* enterprise and enterprise to nothing; a denial of checkLimits carries as
\* required_plan what getRecommendedPlan gives for the plan it checked, and
\* none for enterprise; an allowance carries none.
C17_RequiredPlan ==
  result.stage = "decided" =>
    /\ getRecommendedPlan("free") = "pro"
    /\ getRecommendedPlan("pro") = "business"
    /\ getRecommendedPlan("business") = "enterprise"
    /\ getRecommendedPlan("enterprise") = NoValue
    /\ ~result.out.allowed =>
         /\ result.out.required_plan = getRecommendedPlan(ownerPlan)
         /\ result.out.required_plan =
              (CASE ownerPlan = "free" -> "pro"
                 [] ownerPlan = "pro" -> "business"
                 [] ownerPlan = "business" -> "enterprise"
                 [] OTHER -> NoValue)
    /\ result.out.allowed => result.out.required_plan = NoValue

\* C17: an enterprise owner at the monthly limit has been denied, and the
\* denial names no plan to move to.
C17_EnterpriseDenied ==
  /\ result.stage = "decided" /\ ownerPlan = "enterprise"
  /\ usage0.daily < 100000 /\ usage0.monthly >= 3000000
  /\ ~result.out.allowed /\ result.out.reason = "Monthly limit exceeded"
  /\ result.out.required_plan = NoValue

\* The cache holds a readable entry for the tenant and the read of it works.
CacheHit == arg.cacheRead = "ok" /\ CacheLive(arg.cache, arg.app_id, now)

\* C18: getAppConfig on a cache hit returns the cached configuration,
\* leaves the cache alone and makes no read of the master store; on a miss
\* (no entry, an expired entry or a failing cache read) it reads the master
\* store and, when that gives a configuration, returns it and stores it
\* with expiry 300 s ahead; a failing cache write leaves the cache as it was
\* and the result is still the configuration of the master store; only an
\* exception of the master store itself makes the call throw.
C18_ReadThrough ==
  result.stage = "resolved" =>
    LET out == result.out
        stored == arg.store = "ok" /\ arg.app_id \in DOMAIN master.projects
    IN /\ CacheHit =>
            /\ out.ok /\ out.cfg = arg.cache[arg.app_id].config
            /\ out.reads = 0 /\ out.cache = arg.cache
       /\ ~CacheHit =>
            /\ out.reads >= 1
            /\ out.ok <=> arg.store # "throw"
            /\ stored => out.cfg = BuildAppConfigFrom(master, arg.app_id)
            /\ ~stored => ~out.cfg.found /\ out.cache = arg.cache
            /\ stored /\ arg.cacheWrite = "ok" =>
                 /\ arg.app_id \in DOMAIN out.cache
                 /\ out.cache[arg.app_id] =
                      [config |-> BuildAppConfigFrom(master, arg.app_id),
                       exp |-> now + 300 * 1000]
                 /\ \A k \in DOMAIN arg.cache \ {arg.app_id} :
                      k \in DOMAIN out.cache /\ out.cache[k] = arg.cache[k]
            /\ stored /\ arg.cacheWrite = "throw" => out.cache = arg.cache

\* C18: the cache read failed although a readable entry was there, the
\* master store answered, the cache write failed too, and the call returned
\* the configuration of the master store.
C18_CacheDownStillServed ==
  /\ result.stage = "resolved"
  /\ arg.app_id = App1 /\ CacheLive(arg.cache, App1, now)
  /\ arg.cacheRead = "throw" /\ arg.store = "ok" /\ arg.cacheWrite = "throw"
  /\ result.out.ok /\ result.out.cfg = BuildAppConfig(App1)
  /\ result.out.cfg # arg.cache[App1].config
  /\ result.out.cache = arg.cache

C20_RoundTrip ==
  result.stage = "verified" /\ arg.publicKey = arg.privateKey => result.valid

\* C21: once a parameter set is signed, verifySignature with the signature
\* made for it returns false for the set with the value of one parameter
\* changed, whatever the key text and the signature text it is given.
C21_TamperDetected ==
  result.stage = "verified" => ~result.valid

\* The payload has its identifier and none of the display name, the avatar
\* and the gender.
OptionalAbsent ==
  DOMAIN arg.raw.f = {PayloadShape(arg.provider).id}

\* C22: for each of the six adapters and a payload without display name,
\* avatar and gender, normalizeUser returns, with a display name that is a
\* non-empty text and a gender that is male, female or unknown.
C22_Normalized ==
  result.stage = "normalized" /\ OptionalAbsent =>
    /\ result.out.ok
    /\ result.out.v.nickname.t = "str" /\ Len(result.out.v.nickname.s) > 0
    /\ result.out.v.gender \in
         {JsStr(GenderMale), JsStr(GenderFemale), JsStr(GenderUnknown)}

\* C23: exchangeCodeForToken and getUserInfo of every adapter return a
\* token or a payload only when each of their calls was answered with a
\* success: a non-success status, an embedded error or no answer of any
\* call, the open-id lookup of the QQ adapter included, makes them throw.
C23_FailsOnAnyFailure ==
  result.stage = "called" /\ result.out.ok =>
    arg.first = "success" /\ arg.second \in {"success", "none"}

\* C24: every login and callback request that has started returns a
\* response, also when a provider, the master store, the plan store or the
\* identity store never answers.
C24_EveryRequestReturns ==
  \A r \in Requests : (pc[r] # "idle") ~> (pc[r] = "idle")

\* The steps of a callback that redirects to the application with the user,
\* and of a login that redirects to the provider.
CallbackOrder ==
  <<"params", "state", "config", "exchanged", "userinfo", "identity", "usage",
    "recorded", "redirect">>

LoginOrder == <<"params", "config", "plan", "usage", "admitted", "token", "redirect">>

\* The last response is an error: an error body or a redirect carrying one.
EndedInError == last.resp.error # NoValue

\* From where request r stands its failing step leads to an error response,
\* at once or through the catch block of handleCallback.
ErrorWithinReach(r) ==
  IF pc[r] = "c_catch"
    THEN ENABLED (FailStep(r) /\ pc'[r] = "idle" /\ last'.resp.error # NoValue)
  ELSE ENABLED (FailStep(r) /\ (pc'[r] = "c_catch"
                                \/ (pc'[r] = "idle" /\ last'.resp.error # NoValue)))

\* C25: the handlers follow the state machine.  A callback that ends in the
\* redirect to the application with the user took the steps state validated,
\* code exchanged, identity resolved, usage recorded, redirect, in this order
\* and none skipped; a login that ends in the redirect to the provider took
\* the admission check first; a request that has returned takes no further
\* step (when no request is in flight the only step is an arrival); and from
\* every state of a request in flight an error response is within reach.
C25_StateMachine ==
  /\ [](/\ (last.kind = "callback" /\ last.resp.to = "app" /\ ~EndedInError)
             => last.trace = CallbackOrder
        /\ (last.kind = "login" /\ last.resp.to = "provider")
             => last.trace = LoginOrder
        /\ \A r \in Requests : pc[r] # "idle" => ErrorWithinReach(r))
  /\ [][(\A r \in Requests : pc[r] = "idle") => started' = started + 1]_vars

\* C25 witness: a callback has ended in the redirect to the application
\* after a login ended in the redirect to the provider, and a later request
\* has ended in an error from inside incrementUsage.
C25_BothLegsAndError ==
  /\ recorded > 0
  /\ issued # {}
  /\ last.kind = "callback"
  /\ EndedInError
  /\ last.resp.description = "usage"

\* The count last written for a window, 0 when none was.
WrittenFor(counts, window) == IF window \in DOMAIN counts THEN counts[window] ELSE 0

AllowsCors(headers) ==
  /\ CorsOrigin \in DOMAIN headers /\ headers[CorsOrigin] = "*"
  /\ CorsMethods \in DOMAIN headers
  /\ headers[CorsMethods] = "GET, POST, PUT, DELETE, OPTIONS"
  /\ CorsHeaders \in DOMAIN headers
  /\ headers[CorsHeaders] = "Content-Type, Authorization"

\* C27: every response with a JSON body, of every endpoint, for success and
\* error alike, carries the headers that allow any origin, the methods GET,
\* POST, PUT, DELETE, OPTIONS and the request headers Content-Type and
\* Authorization.
C27_JsonCarriesCors ==
  (result.stage = "answered" /\ result.response.json)
    => AllowsCors(result.response.headers)

\* C28: for a login and a callback that reach the gateway on the same
\* origin, the callback URL handleCallback hands to exchangeCodeForToken is
\* the one handleLogin put in the authorization URL: the origin of the
\* gateway with the path /auth/callback and no query, whatever the path and
\* the query of the requests.
C28_SameCallbackUrl ==
  (result.stage = "callback" /\ Origin(arg.login) = Origin(arg.callback))
    => /\ result.exchanged = result.authorized
       /\ Origin(result.exchanged) = Origin(arg.callback)
       /\ result.exchanged.pathname = <<"auth", "callback">>
       /\ result.exchanged.search = ""

\* C28 witness: login and callback name the gateway differently (GW:443 and
\* gw) and carry their own queries, and both legs got the same callback URL.
C28_SameOriginWrittenDifferently ==
  /\ result.stage = "callback"
  /\ arg.login.host = <<71, 87>> /\ arg.login.port = 443 /\ arg.login.scheme = "https"
  /\ arg.callback.host = <<103, 119>> /\ arg.callback.port = 0
  /\ arg.callback.scheme = "https"
  /\ arg.login.search # arg.callback.search
  /\ result.exchanged = result.authorized

\* The guards of a login in the order of the state machine, each with
\* whether the request violates it and the answer it stands for.  The
\* provider guards are judged on the configuration getAppConfig resolves
\* for the tenant.
LoginGuards(in, usage, plan) ==
  LET known == in.app_id \in DOMAIN Projects
      entries == IF known THEN BuildAppConfig(in.app_id).providers ELSE <<>>
      named == {i \in 1..Len(entries) : entries[i].provider = in.provider}
  IN << [violated |-> Empty \in {in.app_id, in.provider, in.redirect},
         error |-> "missing_params", status |-> 400],
        [violated |-> ~known, error |-> "invalid_app", status |-> 404],
        [violated |-> \/ usage.daily >= PLAN_CONFIG[plan].daily
                      \/ usage.monthly >= PLAN_CONFIG[plan].monthly,
         error |-> "LIMIT_EXCEEDED", status |-> 429],
        [violated |-> named = {}, error |-> "invalid_provider", status |-> 404],
        [violated |-> \E i \in named : ~entries[i].enabled,
         error |-> "provider_disabled", status |-> 403],
        [violated |-> ToLowerCase(in.provider) \notin RegisteredProviders,
         error |-> "invalid_provider", status |-> 500] >>

\* The answer of the first guard the request violates; the redirect when it
\* violates none.
FirstViolated(guards) ==
  IF \E i \in 1..Len(guards) : guards[i].violated
  THEN LET first == CHOOSE i \in 1..Len(guards) :
                      /\ guards[i].violated
                      /\ \A j \in 1..(i - 1) : ~guards[j].violated
       IN [error |-> guards[first].error, status |-> guards[first].status]
  ELSE [error |-> NoValue, status |-> 302]

\* C29: handleLogin answers with the error of the first guard the request
\* violates in the order required parameters, tenant exists, admission,
\* provider configured, provider enabled, provider supported, and redirects
\* when it violates none; a login of an owner over quota that names a
\* provider the tenant has not configured is answered 429 LIMIT_EXCEEDED.
C29_FirstViolatedGuard ==
  last.kind = "login" =>
    [error |-> last.resp.error, status |-> last.resp.status]
      = FirstViolated(LoginGuards(arg.in, usage0, ownerPlan))

\* C29 witness: a login for weibo, which app1 has not configured, by an
\* owner at the daily limit has been answered 429 LIMIT_EXCEEDED.
C29_OverQuotaUnconfigured ==
  /\ last.kind = "login"
  /\ arg.in = [app_id |-> App1, provider |-> Weibo, redirect |-> HomePath]
  /\ usage0.daily >= PLAN_CONFIG[ownerPlan].daily
  /\ last.resp.status = 429
  /\ last.resp.error = "LIMIT_EXCEEDED"

\* The last millisecond of the window a counter was written for: of the day
\* its key names, and of the month that day lies in.
DailyWindowEnd(put) == [day |-> put.keyDay, ms |-> DayMs - 1]

MonthlyWindowEnd(put) == [day |-> LastDayOfMonth[put.keyDay], ms |-> DayMs - 1]

\* An expiration is at the end of a window: not before its last millisecond
\* and not after the first of the next.
AtWindowEnd(exp, end) ==
  ~Before(exp, end) /\ ~Before(PlusSeconds([end EXCEPT !.ms = 0], 86400), exp)

\* C30: record_success stores each counter with an expiration aligned to
\* the end of its window.  The daily TTL is the whole seconds left until
\* 23:59:59.999 of the day, the monthly TTL the whole seconds left until
\* 23:59:59.999 of the last day of the month, both are at least 0, and each
\* counter expires at the end of the window it was written for, neither
\* before it nor beyond it.
C30_ExpiresAtWindowEnd ==
  result.put.done =>
    LET put == result.put
    IN /\ put.dailyTTL = (DayMs - 1 - put.at.ms) \div 1000
       /\ put.monthlyTTL =
            (LastDayOfMonth[put.at.day] - put.at.day) * 86400 + (DayMs - 1 - put.at.ms) \div 1000
       /\ put.dailyTTL >= 0 /\ put.monthlyTTL >= 0
       /\ AtWindowEnd(put.dailyExp, DailyWindowEnd(put))
       /\ AtWindowEnd(put.monthlyExp, MonthlyWindowEnd(put))

\* No state token was accepted past state validation more than once.
EachTokenOnce == \A s \in DOMAIN accepted : accepted[s] <= 1

\* C31: the counts stored for the owner stay within the limits of the
\* owner's plan (the plan never changes here), whatever the interleaving of
\* logins and callbacks, as long as every callback presents a token a login
\* handed out and no token is presented twice.
C31_QuotaNeverExceeded ==
  EachTokenOnce =>
    /\ DailyCount <= PLAN_CONFIG[ownerPlan].daily
    /\ MonthlyCount <= PLAN_CONFIG[ownerPlan].monthly

\* C32: whenever no request is in flight, the monthly count stored for the
\* owner is at least the daily count stored for the owner (one window: the
\* day and the month of the store are the current ones).
C32_MonthlyCoversDaily == AllIdle => MonthlyCount >= DailyCount

\* An update of the tenant has completed: its handler wrote the master
\* store, invalidated the cache entry and answered with success, and no
\* other update has started since.
UpdateCompleted ==
  /\ admin.pc = "idle" /\ admin.op \in TenantUpdates
  /\ admin.resp.status \in {200, 201}
  /\ admin.trace = <<"auth", "owned", "write", "invalidate", "respond">>

\* This step is a getAppConfig call for the tenant that is answered from the
\* cache.
ServedFromCache(app_id) ==
  /\ admin.reader.pc = "idle" /\ admin'.reader.pc = "idle"
  /\ started' = started + 1 /\ admin'.pc = admin.pc
  /\ admin'.reader.app_id = app_id
  /\ getCachedAppConfig(appCache, app_id, "ok", now).found

\* C33: a getAppConfig call that starts after an update of the tenant has
\* completed and is answered from the cache is handed the configuration the
\* master store holds, not the one from before the update.
C33_NoStaleConfig ==
  [][UpdateCompleted /\ ServedFromCache(App1) =>
       admin'.reader.cfg = BuildAppConfigFrom(master, App1)]_vars

\* C34: every redirect a callback answers with, on success and on error,
\* points to the scheme and host of the tenant's frontend_base_url,
\* whatever the redirect field of the state token holds.
C34_RedirectStaysOnFrontend ==
  result.stage = "responded" /\ result.status = 302 =>
    result.url = ParseAbsolute(arg.base)

\* C35: the timestamp of every token decodeState accepts is a number that
\* lies at most 600000 ms before the instant of decoding and not after it.
C35_AcceptedInsideWindow ==
  result.stage = "decoded" /\ result.out.ok /\ result.out.v # JsNull =>
    LET ts == ToNumber(GetProp(result.out.v, K_timestamp).v)
    IN /\ GetProp(result.out.v, K_timestamp).v.t = "num"
       /\ ~ts.nan
       /\ arg.at - ts.n >= 0
       /\ arg.at - ts.n <= STATE_EXPIRATION

\* The oauth_credentials table has a row for the tenant and provider whose
\* enabled column is false.
DisabledInStore(app_id, provider) ==
  /\ app_id \in DOMAIN Credentials
  /\ \E i \in 1..Len(Credentials[app_id]) :
       Credentials[app_id][i].provider = provider /\ ~Credentials[app_id][i].enabled

\* C36: a login that names a provider the tenant has configured but
\* disabled, by an owner within the limits of the plan, is answered 403
\* provider_disabled.
C36_DisabledAnswered403 ==
  /\ last.kind = "login"
  /\ DisabledInStore(arg.in.app_id, arg.in.provider)
  /\ arg.in.redirect # Empty
  /\ LimitDecision(usage0, ownerPlan).allowed
  => last.resp.status = 403 /\ last.resp.error = "provider_disabled"

\* C37: getDeveloperPlan returns one of free, pro, business and enterprise
\* whatever the plan cache holds and whatever the master store answers, so
\* the lookup of the limits in checkLimits is defined.
C37_PlanIsAPlan ==
  /\ result.stage \in {"resolved", "looked_up"} => result.plan \in Plans
  /\ result.stage = "looked_up" => result.limits.ok


\* The entry under a key of the namespace: its text and the instant it
\* expires, or nothing.
EntryAt(kv, key) ==
  IF key \in DOMAIN kv THEN [present |-> TRUE, text |-> kv[key].text, exp |-> kv[key].exp]
  ELSE [present |-> FALSE, text |-> <<>>, exp |-> [day |-> 0, ms |-> 0]]

\* The daily and the monthly counter of an owner on 2026-11-30.
CountersOf(kv, o) ==
  [daily |-> EntryAt(kv, DailyKeyOn(o, CivilFromDays(FrameInstants[1].day))),
   monthly |-> EntryAt(kv, MonthlyKeyOn(o, CivilFromDays(FrameInstants[1].day)))]

ReadOnlyOps == {"get_usage", "check_admission", "login"}

\* C38: a usage-stats request, a checkLimits call and a login request,
\* admitted or denied, leave the daily and the monthly counter of every
\* owner as they were, text and expiration, while they may write the plan
\* and the configuration caches of the same namespace.
C38_ReadsLeaveCounters ==
  [][result'.n = result.n + 1 /\ result'.op \in ReadOnlyOps
       => \A o \in Owners : CountersOf(result'.kv, o) = CountersOf(result.kv, o)]_vars

\* C38 witness: logins have been admitted and denied, the last one denied
\* with dev1's counter at the limit of 200 and the plan of dev1 in the cache.
C38_DeniedAndAdmitted ==
  /\ result.op = "login"
  /\ result.out = "429"
  /\ result.seen = {"302", "429"}
  /\ PlanCacheKey("dev1") \in DOMAIN result.kv
  /\ CountersOf(result.kv, "dev1").daily.text = NumToStr(200)
  /\ CountersOf(result.kv, "dev1").monthly.text = NumToStr(200)

RECURSIVE SumOver(_, _)
SumOver(f, S) ==
  IF S = {} THEN 0
  ELSE LET x == CHOOSE y \in S : TRUE IN f[x] + SumOver(f, S \ {x})

TenantsOf(o) == {a \in Tenants : TenantOwner[a] = o}

FrameStartOf(o) == IF o = "dev1" THEN arg.start ELSE 0

\* C39: the puts of incrementUsage for a tenant write the counters of the
\* tenant's owner and leave the counters of every other owner as they were;
\* and when no two recordings of one owner overlapped, the counters of an
\* owner show the successes of all its tenants together.
C39_KeyedByOwner ==
  [][/\ \A a \in Tenants :
          arg.inc[a].busy /\ ~arg'.inc[a].busy
            => /\ \A o \in Owners \ {TenantOwner[a]} :
                    CountersOf(result'.kv, o) = CountersOf(result.kv, o)
               /\ CountersOf(result'.kv, TenantOwner[a]).daily.text
                    = NumToStr(arg.inc[a].newDaily)
               /\ CountersOf(result'.kv, TenantOwner[a]).monthly.text
                    = NumToStr(arg.inc[a].newMonthly)
     /\ (~result'.lost /\ \A a \in Tenants : ~arg'.inc[a].busy)
          => \A o \in Owners :
               getUsageStatsIn(result'.kv, o, FrameInstants[arg'.at])
                 = [daily |-> FrameStartOf(o) + SumOver(result'.counted, TenantsOf(o)),
                    monthly |-> FrameStartOf(o) + SumOver(result'.counted, TenantsOf(o))]
    ]_vars

\* C39 witness: one success through each of the three tenants, one after the
\* other: dev1's pair shows two, dev2's pair one.
C39_TwoTenantsOnePair ==
  /\ result.op = "record_success"
  /\ ~result.lost
  /\ \A a \in Tenants : result.counted[a] = 1 /\ ~arg.inc[a].busy
  /\ getUsageStatsIn(result.kv, "dev1", FrameNow).daily = arg.start + 2
  /\ getUsageStatsIn(result.kv, "dev1", FrameNow).monthly = arg.start + 2
  /\ getUsageStatsIn(result.kv, "dev2", FrameNow) = [daily |-> 1, monthly |-> 1]


\* C40: getOrCreateUser never sends a create for an email (provider name and
\* unionid, or openid without one) the store holds at that moment, at most
\* one create is sent per email, and the calls for one email that the store
\* answered all return the same user.
C40_OneCreatePerIdentity ==
  /\ ~result.existing
  /\ \A e \in DOMAIN result.creates : result.creates[e] <= 1
  /\ \A p, q \in Callers :
       /\ result.caller[p].pc = "done" /\ result.caller[q].pc = "done"
       /\ result.caller[p].email = result.caller[q].email
       /\ result.caller[p].err # "find" /\ result.caller[q].err # "find"
       => /\ result.caller[p].user # 0
          /\ result.caller[p].user = result.caller[q].user

====
